---- MODULE Spec2Model ----
(***************************************************************************)
(* A model of the diagnostic orchestration backend (backend/chat_agent.py   *)
(* and the chat endpoints of backend/app.py): the token budgeter, the       *)
(* file-backed conversational memory store, the telemetry window extractor, *)
(* the composition of the prompts and the debug_chatbot pipeline.           *)
(*                                                                          *)
(* Text is a sequence of tokens.  A token is either a single character      *)
(* ("x", "y", ".", " ", "\n") or one of the literal pieces the code writes  *)
(* with its f-strings ("--- Chat Entry", "User:", ...), which are kept      *)
(* atomic; Width gives the number of characters of a token.  Where only     *)
(* the length of a text matters (prompt composition) a text is its length.  *)
(***************************************************************************)
EXTENDS Integers, Sequences, FiniteSets, TLC

VARIABLES
  files,      \* log id -> the file data/{log_id}_rag.json
  clock,      \* the wall clock read by datetime.now()
  hist,       \* log id -> the append calls made for it, in call order
  lastRead,   \* what the last reader call observed and returned
  procs,      \* the concurrent store clients: position and locals
  run,        \* the debug_chatbot run in progress: position and locals
  tr,         \* the budgeter's input and results
  logs,       \* log id -> the Log Record file data/{log_id}.json
  fd,         \* the last direct call of get_flight_data and its result
  prompt,     \* the messages composed for a reasoning call
  disk        \* "ok", or "faulty": a write under data/ can fail with OSError

vars == <<files, clock, hist, lastRead, procs, run, tr, logs, fd, prompt, disk>>

(***************************************************************************)
(* Bounds of the model.                                                     *)
(***************************************************************************)
MaxTextLen == 9       \* longest text given to the budgeter
MaxTokens == 2        \* largest token budget given to the budgeter
MaxNegTokens == 1     \* budgets go down to -MaxNegTokens
MaxOps == 3           \* append calls in one behaviour of SpecStore
MaxProcOps == 2       \* append calls of one client in a behaviour of SpecConc
ShortCount == 7       \* attitude samples of the short log
LongCount == 102      \* attitude samples of the long log
MaxWindowSec == 2     \* largest window_sec given to the extractor
MaxOverrun == 1       \* texts are up to this much longer than the input budget

(***************************************************************************)
(* Program constants.                                                       *)
(***************************************************************************)
MAX_INPUT_TOKENS == 20000
AVG_CHARS_PER_TOKEN == 4
VALUES_LIMIT == 100   \* window_values[:100]

Max(a, b) == IF a >= b THEN a ELSE b

(***************************************************************************)
(* Tokens.                                                                  *)
(***************************************************************************)
NL == "\n"
SP == " "
Dot == "."
Ellipsis == <<Dot, Dot, Dot>>
ChatDelim == "--- Chat Entry"
AgentDelim == "--- Agent Chat Entry"
Dashes == "---"
UserTag == "User:"
AsstTag == "Assistant:"
QTag == "Question:"
RTag == "Response:"
HeaderTok == "Chat History for Flight Log"
CutTok == "<cut>"     \* what is left of a token that a slice cut through

Width(t) ==
  CASE t = ChatDelim -> 14
    [] t = AgentDelim -> 20
    [] t = Dashes -> 3
    [] t = UserTag -> 5
    [] t = AsstTag -> 10
    [] t = QTag -> 9
    [] t = RTag -> 9
    [] t = HeaderTok -> 27
    [] OTHER -> 1

(***************************************************************************)
(* The str methods the chat-history reader uses.                            *)
(***************************************************************************)
IsSpace(t) == t \in {SP, NL}

RECURSIVE LStrip(_)
LStrip(s) == IF s # <<>> /\ IsSpace(Head(s)) THEN LStrip(Tail(s)) ELSE s

RECURSIVE RStrip(_)
RStrip(s) ==
  IF s # <<>> /\ IsSpace(s[Len(s)]) THEN RStrip(SubSeq(s, 1, Len(s) - 1)) ELSE s

\* str.strip()
Strip(s) == RStrip(LStrip(s))

FirstIndex(s, d) ==
  IF \E i \in 1..Len(s) : s[i] = d
  THEN CHOOSE i \in 1..Len(s) : s[i] = d /\ \A j \in 1..(i - 1) : s[j] # d
  ELSE 0

\* str.split(d): the pieces between the occurrences of d, at least one piece
RECURSIVE SplitOn(_, _)
SplitOn(s, d) ==
  LET i == FirstIndex(s, d) IN
  IF i = 0 THEN <<s>>
  ELSE <<SubSeq(s, 1, i - 1)>> \o SplitOn(SubSeq(s, i + 1, Len(s)), d)

\* str.startswith(tag), tag one of the literal prefixes
StartsWith(s, tag) == s # <<>> /\ Head(s) = tag

\* s[k:]: s without its first k characters
RECURSIVE DropChars(_, _)
DropChars(s, k) ==
  IF k <= 0 \/ s = <<>> THEN s
  ELSE IF Width(Head(s)) <= k THEN DropChars(Tail(s), k - Width(Head(s)))
  ELSE <<CutTok>> \o Tail(s)

(***************************************************************************)
(* Token budgeter: ChatAgent._truncate_text.                                *)
(***************************************************************************)
\* A budgeter that forgets to make room for the ellipsis marker.
truncate_text_no_room(text, max_tokens) ==
  IF text = <<>> \/ max_tokens <= 0 THEN text
  ELSE LET max_chars == max_tokens * AVG_CHARS_PER_TOKEN IN
       IF Len(text) <= max_chars THEN text
       ELSE IF max_chars <= 3 THEN SubSeq(text, 1, max_chars)
       ELSE SubSeq(text, 1, max_chars) \o Ellipsis

\* A budgeter whose fit test is strict: a text of exactly max_chars is cut.
truncate_text_strict(text, max_tokens) ==
  IF text = <<>> \/ max_tokens <= 0 THEN text
  ELSE LET max_chars == max_tokens * AVG_CHARS_PER_TOKEN IN
       IF Len(text) < max_chars THEN text
       ELSE IF max_chars <= 3 THEN SubSeq(text, 1, max_chars)
       ELSE SubSeq(text, 1, max_chars - 3) \o Ellipsis

\* A budgeter that keeps the end of the text instead of its beginning.
truncate_text_keep_tail(text, max_tokens) ==
  IF text = <<>> \/ max_tokens <= 0 THEN text
  ELSE LET max_chars == max_tokens * AVG_CHARS_PER_TOKEN IN
       IF Len(text) <= max_chars THEN text
       ELSE IF max_chars <= 3 THEN SubSeq(text, 1, max_chars)
       ELSE SubSeq(text, Len(text) - (max_chars - 3) + 1, Len(text)) \o Ellipsis

truncate_text(text, max_tokens) ==
  IF text = <<>> \/ max_tokens <= 0 THEN text
  ELSE LET max_chars == max_tokens * AVG_CHARS_PER_TOKEN IN
       IF Len(text) <= max_chars THEN text
       ELSE IF max_chars <= 3 THEN SubSeq(text, 1, max_chars)
       ELSE SubSeq(text, 1, max_chars - 3) \o Ellipsis

(***************************************************************************)
(* The budgeter applied to every text and budget within the bounds, once    *)
(* and then again to its own result.                                        *)
(***************************************************************************)
TruncChars == {"x", Dot}
TruncTexts == UNION {[1..k -> TruncChars] : k \in 0..MaxTextLen}
TruncBudgets == (0 - MaxNegTokens)..MaxTokens

TrOff == [stage |-> "off", s |-> <<>>, n |-> 0, out |-> <<>>, out2 |-> <<>>]

TruncateOnce ==
  /\ tr.stage = "in"
  /\ tr' = [tr EXCEPT !.stage = "once", !.out = truncate_text(tr.s, tr.n)]
  /\ UNCHANGED <<disk, logs, fd, prompt, files, clock, hist, lastRead, procs, run>>

TruncateAgain ==
  /\ tr.stage = "once"
  /\ tr' = [tr EXCEPT !.stage = "twice", !.out2 = truncate_text(tr.out, tr.n)]
  /\ UNCHANGED <<disk, logs, fd, prompt, files, clock, hist, lastRead, procs, run>>

(***************************************************************************)
(* Log ids and the stored context-document collections.                     *)
(* A file is absent, holds a collection (json.dump followed by json.load    *)
(* gives back the dumped dicts, lists, strings and integers), or is         *)
(* "partial": opened for writing, so truncated, and not yet fully written.  *)
(***************************************************************************)
NoLogId == ""                      \* an empty log id
Ingested == {"L1"}                 \* logs uploaded through /api/logs/upload
NeverIngested == {"L0"}            \* ids with no file under data/
AllIds == Ingested \cup NeverIngested \cup {NoLogId}

Absent == [state |-> "absent", documents |-> <<>>]
Partial == [state |-> "partial", documents |-> <<>>]
Stored(docs) == [state |-> "ok", documents |-> docs]

StaticDoc(type, title) ==
  [document_type |-> type, title |-> title, content |-> <<"x">>]

\* RAGDocsGenerator.generate_rag_documents: the six documents of an upload
generate_rag_documents ==
  << StaticDoc("flight_overview", "Flight Overview"),
     StaticDoc("attitude_control", "Attitude Control"),
     StaticDoc("gps_navigation", "GPS Navigation"),
     StaticDoc("ekf_quaternion", "EKF Quaternion"),
     StaticDoc("parameters", "Parameters"),
     StaticDoc("reference", "ArduPilot Message Reference") >>

\* the state of data/ after upload_log_data has run for every ingested log
UploadedFiles ==
  [id \in AllIds |-> IF id \in Ingested THEN Stored(generate_rag_documents)
                     ELSE Absent]

\* datetime.now().isoformat()
IsoFormat(ts) == ToString(ts)

\* the index of the first chat_history document of a collection, 0 for none
ChatDocIndex(docs) ==
  IF \E i \in 1..Len(docs) : docs[i].document_type = "chat_history"
  THEN CHOOSE i \in 1..Len(docs) :
         /\ docs[i].document_type = "chat_history"
         /\ \A j \in 1..(i - 1) : docs[j].document_type # "chat_history"
  ELSE 0

ChatHeader(log_id) == <<HeaderTok, SP, log_id>>

NewChatDoc(log_id, entry, ts) ==
  [document_id |-> log_id \o "_chat_history",
   document_type |-> "chat_history",
   title |-> "Chat History - " \o log_id,
   content |-> ChatHeader(log_id) \o entry,
   metadata |-> [created_at |-> ts, last_updated |-> ts,
                 message_count |-> 1, log_id |-> log_id]]

\* the entry text of _append_agent_chat_to_history
AgentEntry(ts, agent_name, question, answer) ==
  <<NL, NL, AgentDelim, SP, IsoFormat(ts), SP, "[" \o agent_name \o "]", SP,
    Dashes, NL, QTag, SP>> \o question \o <<NL, RTag, SP>> \o answer

\* the entry text of append_chat_to_rag
ChatEntry(ts, question, answer) ==
  <<NL, NL, ChatDelim, SP, IsoFormat(ts), SP, Dashes, NL, UserTag, SP>>
    \o question \o <<NL, AsstTag, SP>> \o answer

\* dict.get(key, default) on the metadata of a chat document
MetaGet(metadata, key, default) ==
  IF key \in DOMAIN metadata THEN metadata[key] ELSE default

\* An update that keeps only the latest entry in the content.
UpdateChatDocLatestOnly(doc, entry, ts) ==
  [doc EXCEPT
     !.content = ChatHeader(doc.metadata.log_id) \o entry,
     !.metadata = [created_at |-> MetaGet(@, "created_at", ts),
                   last_updated |-> ts,
                   message_count |-> MetaGet(@, "message_count", 0) + 1,
                   log_id |-> @.log_id]]

\* An update that stamps created_at again on every append.
UpdateChatDocRestamp(doc, entry, ts) ==
  [doc EXCEPT
     !.content = @ \o entry,
     !.metadata = [created_at |-> ts, last_updated |-> ts,
                   message_count |-> MetaGet(@, "message_count", 0) + 1,
                   log_id |-> @.log_id]]

\* the else branch of both appends: the existing chat document, extended
UpdateChatDoc(doc, entry, ts) ==
  [doc EXCEPT
     !.content = @ \o entry,
     !.metadata = [created_at |-> MetaGet(@, "created_at", ts),
                   last_updated |-> ts,
                   message_count |-> MetaGet(@, "message_count", 0) + 1,
                   log_id |-> @.log_id]]

\* An append that never finds the existing chat document.
AppendEntryAlwaysNew(docs, log_id, entry, ts) ==
  Append(docs, NewChatDoc(log_id, entry, ts))

\* find the chat document, create it or extend it
AppendEntry(docs, log_id, entry, ts) ==
  LET i == ChatDocIndex(docs) IN
  IF i = 0 THEN Append(docs, NewChatDoc(log_id, entry, ts))
  ELSE [docs EXCEPT ![i] = UpdateChatDoc(docs[i], entry, ts)]

\* An append that skips the guards and writes a collection for any log id.
append_agent_chat_to_history_unguarded(file, log_id, agent_name, question, answer, ts) ==
  Stored(AppendEntry(file.documents, log_id,
                     AgentEntry(ts, agent_name, question, answer), ts))

\* _append_agent_chat_to_history run alone: the file it leaves behind
append_agent_chat_to_history(file, log_id, agent_name, question, answer, ts) ==
  IF log_id = NoLogId THEN file
  ELSE IF file.state = "absent" THEN file
  ELSE IF file.state = "partial" THEN file        \* json.JSONDecodeError
  ELSE Stored(AppendEntry(file.documents, log_id,
                          AgentEntry(ts, agent_name, question, answer), ts))

\* append_chat_to_rag run alone: the file it leaves behind
append_chat_to_rag(file, log_id, question, answer, ts) ==
  IF file.state # "ok" THEN file                   \* except Exception
  ELSE Stored(AppendEntry(file.documents, log_id,
                          ChatEntry(ts, question, answer), ts))

\* one entry of the content, as the history endpoint parses it
ParseEntry(entry, log_id) ==
  LET lines == SplitOn(Strip(entry), NL) IN
  IF Len(lines) >= 3
  THEN LET timestamp_line == Strip(lines[1])
           user_line == Strip(lines[2])
           assistant_line == Strip(lines[3])
       IN IF StartsWith(user_line, UserTag) /\ StartsWith(assistant_line, AsstTag)
          THEN << [timestamp |-> timestamp_line,
                   question |-> DropChars(user_line, 6),
                   answer |-> DropChars(assistant_line, 11),
                   log_id |-> log_id] >>
          ELSE <<>>
  ELSE <<>>

RECURSIVE ParseEntries(_, _)
ParseEntries(entries, log_id) ==
  IF entries = <<>> THEN <<>>
  ELSE ParseEntry(Head(entries), log_id) \o ParseEntries(Tail(entries), log_id)

\* GET /api/chat/history/{log_id}: the messages it returns
get_chat_history(file, log_id) ==
  IF file.state # "ok" THEN <<>>
  ELSE LET i == ChatDocIndex(file.documents) IN
       IF i = 0 THEN <<>>
       ELSE ParseEntries(Tail(SplitOn(file.documents[i].content, ChatDelim)), log_id)

(***************************************************************************)
(* JSON values, as json.loads returns them.                                 *)
(***************************************************************************)
JNull == [kind |-> "null"]
JNum(v) == [kind |-> "num", v |-> v]
JStr(v) == [kind |-> "str", v |-> v]
JList(items) == [kind |-> "list", items |-> items]
JDict(fields) == [kind |-> "dict", fields |-> fields]
JInvalid == [kind |-> "invalid"]       \* text on which json.loads raises
                                       \* json.JSONDecodeError
\* text on which json.loads raises another error: arrays or objects nested
\* deeper than the interpreter's recursion limit (RecursionError)
JTooDeep == [kind |-> "deep"]

\* an exception leaves the function: there is no return value
Raised == [kind |-> "raised"]

\* what a reasoning call returns: the text, and what json.loads makes of it
Response(json) == [text |-> <<ToString(json)>>, json |-> json]

\* ChatAgent._safe_parse_json
safe_parse_json(raw_content) ==
  IF raw_content.json.kind = "invalid"
  THEN JDict([raw |-> JStr(raw_content.text)])
  ELSE IF raw_content.json.kind = "deep" THEN Raised  \* not a JSONDecodeError
  ELSE IF raw_content.json.kind \in {"dict", "list"} THEN raw_content.json
  ELSE JDict([raw |-> raw_content.json])

\* dict.get(key, default)
DictGet(d, key, default) ==
  IF key \in DOMAIN d.fields THEN d.fields[key] ELSE default

\* the keys of a dict, in some order
RECURSIVE SeqOfSet(_)
SeqOfSet(S) ==
  IF S = {} THEN <<>>
  ELSE LET x == CHOOSE y \in S : TRUE IN <<x>> \o SeqOfSet(S \ {x})

\* for x in value: is the value iterable, and what the loop visits
Iterable(value) == value.kind \in {"list", "str", "dict"}

StrChars(str) ==
  CASE str = "" -> <<>>
    [] str = "gps" -> <<"g", "p", "s">>
    [] OTHER -> <<str>>

IterItems(value) ==
  CASE value.kind = "list" -> value.items
    [] value.kind = "str" -> [i \in 1..Len(StrChars(value.v)) |-> JStr(StrChars(value.v)[i])]
    [] value.kind = "dict" ->
         [i \in 1..Len(SeqOfSet(DOMAIN value.fields)) |->
            JStr(SeqOfSet(DOMAIN value.fields)[i])]
    [] OTHER -> <<>>

(***************************************************************************)
(* Log Records: the files data/{log_id}.json that upload_log_data writes,   *)
(* and the telemetry window extractor ChatAgent.get_flight_data.            *)
(* Times are integers, in milliseconds.                                     *)
(***************************************************************************)
\* the times start, start + period, ... of count samples
Series(start, period, count) == [i \in 1..count |-> start + (i - 1) * period]

\* one message type of time_series_data: its "data" mapping, field -> values
MsgType(times, fields) ==
  [data |-> [f \in {"time_boot_ms"} \cup DOMAIN fields |->
               IF f = "time_boot_ms" THEN times ELSE fields[f]]]

\* a flight of a few seconds: attitude every 500 ms, two GPS receivers that
\* start later and stop earlier, a message type that recorded no sample
LogShort ==
  [time_series_data |->
     ( "ATT" :> MsgType(Series(3500, 500, ShortCount),
                        ( "Roll" :> Series(10, 1, ShortCount)
                          @@ "ErrRP" :> [i \in 1..ShortCount |-> IF i = 4 THEN 12 ELSE 2] ))
       @@ "GPS[0]" :> MsgType(Series(4500, 500, 3),
                        ( "NSats" :> <<9, 5, 9>> @@ "HDop" :> <<1, 1, 3>> ))
       @@ "GPS[1]" :> MsgType(Series(4500, 500, 3), ( "NSats" :> <<7, 7, 7>> ))
       @@ "MAG" :> MsgType(<<>>, ( "MagX" :> <<>> )) ),
   flight_summary |->
     [modes |-> << <<3500, "STABILIZE">>, <<5000, "AUTO">> >>,
      events |-> << <<5000, "ARMED">>, <<6500>> >>,
      text_messages |-> << <<4500, 6, "EKF3 IMU0 is using GPS">>,
                           <<5500, 2, "PreArm: Compass fail">> >> ]]

\* a flight with many attitude samples in one second: one every 10 ms
LogLong ==
  [time_series_data |->
     ( "ATT" :> MsgType(Series(4500, 10, LongCount),
                        ( "Roll" :> Series(1, 1, LongCount) )) ),
   flight_summary |-> [modes |-> <<>>, events |-> <<>>, text_messages |-> <<>>]]

LogRecords == {LogShort, LogLong}

NoLog == [state |-> "absent"]
StoredLog(record) == [state |-> "ok", log_data |-> record]

\* the Log Record files after upload_log_data: one per ingested log
UploadedLogs(record) ==
  [id \in AllIds |-> IF id \in Ingested THEN StoredLog(record) ELSE NoLog]

\* the signals argument: None, or a list of names
SignalsNone == [given |-> FALSE, list |-> <<>>]
SignalList(names) == [given |-> TRUE, list |-> names]

DEFAULT_SIGNALS == <<"ATT", "GPS", "XKQ", "PARM">>

\* lines 450 to 457: the message type a signal name stands for, "" for None
SignalKey(time_series, signal) ==
  IF signal = "GPS"
  THEN IF "GPS[0]" \in DOMAIN time_series THEN "GPS[0]"
       ELSE IF "GPS[1]" \in DOMAIN time_series THEN "GPS[1]"
       ELSE IF "GPS[2]" \in DOMAIN time_series THEN "GPS[2]"
       ELSE ""
  ELSE IF signal \in DOMAIN time_series THEN signal ELSE ""

\* A window test that leaves the sample on the upper bound out.
InWindowUpperOpen(t, start_ms, end_ms) == start_ms <= t /\ t < end_ms

\* start_ms <= t <= end_ms
InWindow(t, start_ms, end_ms) == start_ms <= t /\ t <= end_ms

\* line 467: the indices of the samples in the window, in increasing order
Indices(times, start_ms, end_ms) ==
  SelectSeq([i \in 1..Len(times) |-> i],
            LAMBDA i : InWindow(times[i], start_ms, end_ms))

\* line 482: [values[i] for i in indices if i < len(values)]
WindowValues(values, indices) ==
  LET kept == SelectSeq(indices, LAMBDA i : i <= Len(values))
  IN [k \in 1..Len(kept) |-> values[kept[k]]]

\* sum(window_values), added up half by half
RECURSIVE SeqSum(_)
SeqSum(s) ==
  IF s = <<>> THEN 0
  ELSE IF Len(s) = 1 THEN s[1]
  ELSE SeqSum(SubSeq(s, 1, Len(s) \div 2))
         + SeqSum(SubSeq(s, Len(s) \div 2 + 1, Len(s)))

\* min(window_values) and max(window_values)
SeqMin(s) ==
  CHOOSE m \in {s[i] : i \in 1..Len(s)} : \A i \in 1..Len(s) : m <= s[i]

SeqMax(s) ==
  CHOOSE m \in {s[i] : i \in 1..Len(s)} : \A i \in 1..Len(s) : m >= s[i]

\* window_values[:100]
HeadValues(window_values) ==
  SubSeq(window_values, 1,
         IF Len(window_values) <= VALUES_LIMIT THEN Len(window_values)
         ELSE VALUES_LIMIT)

\* lines 484 to 489; avg is the quotient sum / count, kept as the two numbers
FieldStats(window_values) ==
  [values |-> HeadValues(window_values),
   min |-> SeqMin(window_values),
   max |-> SeqMax(window_values),
   avg |-> [sum |-> SeqSum(window_values), count |-> Len(window_values)]]

\* lines 472 to 489: what is stored for one signal with samples in the window
SignalData(data, indices) ==
  LET times == data["time_boot_ms"]
      listed == {f \in DOMAIN data \ {"time_boot_ms"} :
                   WindowValues(data[f], indices) # <<>>}
  IN [samples |-> Len(indices),
      time_range |-> <<times[indices[1]], times[indices[Len(indices)]]>>,
      fields |-> [f \in listed |-> FieldStats(WindowValues(data[f], indices))]]

\* lines 448 to 469: the signals of the list that end up in result["signals"]
Extracted(time_series, names, start_ms, end_ms) ==
  {names[k] : k \in {j \in 1..Len(names) :
      LET key == SignalKey(time_series, names[j]) IN
      /\ key # ""
      /\ time_series[key].data["time_boot_ms"] # <<>>
      /\ Indices(time_series[key].data["time_boot_ms"], start_ms, end_ms) # <<>>}}

\* lines 499 to 505: the mode in force at the timestamp
RECURSIVE CurrentMode(_, _, _)
CurrentMode(modes, timestamp_ms, current) ==
  IF modes = <<>> THEN current
  ELSE IF Head(modes)[1] <= timestamp_ms
       THEN CurrentMode(Tail(modes), timestamp_ms, Head(modes)[2])
       ELSE current

\* lines 507 to 517: the events and the messages in the window
RECURSIVE WindowEvents(_, _, _)
WindowEvents(events, start_ms, end_ms) ==
  IF events = <<>> THEN <<>>
  ELSE (IF Len(Head(events)) >= 2 /\ InWindow(Head(events)[1], start_ms, end_ms)
        THEN <<[time |-> Head(events)[1], event |-> Head(events)[2]]>>
        ELSE <<>>) \o WindowEvents(Tail(events), start_ms, end_ms)

RECURSIVE WindowMessages(_, _, _)
WindowMessages(messages, start_ms, end_ms) ==
  IF messages = <<>> THEN <<>>
  ELSE (IF Len(Head(messages)) >= 3 /\ InWindow(Head(messages)[1], start_ms, end_ms)
        THEN <<[time |-> Head(messages)[1], message |-> Head(messages)[3]]>>
        ELSE <<>>) \o WindowMessages(Tail(messages), start_ms, end_ms)

\* the message texts whose lower case holds "error", "fail" or "fault"
ReportsFailure(message) == message \in {"PreArm: Compass fail"}

RECURSIVE MessageAnomalies(_)
MessageAnomalies(messages) ==
  IF messages = <<>> THEN <<>>
  ELSE (IF ReportsFailure(Head(messages).message)
        THEN <<[anomaly |-> "System message", v |-> Head(messages).message]>>
        ELSE <<>>) \o MessageAnomalies(Tail(messages))

\* ChatAgent._detect_simple_anomalies
detect_simple_anomalies(signals, context) ==
  (IF "ATT" \in DOMAIN signals /\ "ErrRP" \in DOMAIN signals["ATT"].fields
      /\ signals["ATT"].fields["ErrRP"].max > 10
   THEN <<[anomaly |-> "Large attitude error", v |-> signals["ATT"].fields["ErrRP"].max]>>
   ELSE <<>>)
  \o (IF "GPS" \in DOMAIN signals /\ "NSats" \in DOMAIN signals["GPS"].fields
         /\ signals["GPS"].fields["NSats"].min < 6
      THEN <<[anomaly |-> "Low GPS satellites", v |-> signals["GPS"].fields["NSats"].min]>>
      ELSE <<>>)
  \o (IF "GPS" \in DOMAIN signals /\ "HDop" \in DOMAIN signals["GPS"].fields
         /\ signals["GPS"].fields["HDop"].max > 2
      THEN <<[anomaly |-> "High GPS HDOP", v |-> signals["GPS"].fields["HDop"].max]>>
      ELSE <<>>)
  \o MessageAnomalies(context.messages)

\* ChatAgent.get_flight_data for the agent of log_id, log the file it opens
get_flight_data(log_id, log, timestamp_ms, signals, window_sec) ==
  IF log_id = NoLogId THEN [error |-> "No log_id specified"]
  ELSE IF log.state = "absent" THEN [error |-> "Log file not found"]
  ELSE
    LET names == IF signals.given THEN signals.list ELSE DEFAULT_SIGNALS
        start_ms == timestamp_ms - window_sec * 500
        end_ms == timestamp_ms + window_sec * 500
        time_series == log.log_data.time_series_data
        flight_summary == log.log_data.flight_summary
        extracted ==
          [s \in Extracted(time_series, names, start_ms, end_ms) |->
             LET data == time_series[SignalKey(time_series, s)].data IN
             SignalData(data, Indices(data["time_boot_ms"], start_ms, end_ms))]
        context ==
          [mode |-> CurrentMode(flight_summary.modes, timestamp_ms, "Unknown"),
           events |-> WindowEvents(flight_summary.events, start_ms, end_ms),
           messages |-> WindowMessages(flight_summary.text_messages, start_ms, end_ms)]
    IN [timestamp |-> timestamp_ms,
        window_seconds |-> window_sec,
        signals |-> extracted,
        anomalies |-> detect_simple_anomalies(extracted, context),
        context |-> context]

\* no call of get_flight_data yet
FdIdle ==
  [called |-> FALSE, log_id |-> NoLogId, timestamp_ms |-> 0,
   signals |-> SignalsNone, window_sec |-> 0, result |-> <<>>]

\* A get_flight_data that keeps of the Log Record only what it returned.
GetFlightDataTrimsLog(log_id, timestamp_ms, signals, window_sec) ==
  /\ fd' = [called |-> TRUE, log_id |-> log_id, timestamp_ms |-> timestamp_ms,
            signals |-> signals, window_sec |-> window_sec,
            result |-> get_flight_data(log_id, logs[log_id], timestamp_ms,
                                       signals, window_sec)]
  /\ logs' = [logs EXCEPT ![log_id] = NoLog]
  /\ UNCHANGED <<disk, files, clock, hist, lastRead, procs, run, tr, prompt>>

\* a direct call of get_flight_data by an agent made for log_id
GetFlightData(log_id, timestamp_ms, signals, window_sec) ==
  /\ fd' = [called |-> TRUE, log_id |-> log_id, timestamp_ms |-> timestamp_ms,
            signals |-> signals, window_sec |-> window_sec,
            result |-> get_flight_data(log_id, logs[log_id], timestamp_ms,
                                       signals, window_sec)]
  /\ UNCHANGED <<disk, logs, files, clock, hist, lastRead, procs, run, tr, prompt>>

\* no reasoning call composed yet
NoPrompt == [call |-> "none", fragments |-> <<>>]

(***************************************************************************)
(* The orchestrator: POST /api/chat/ask and ChatAgent.debug_chatbot.        *)
(***************************************************************************)
\* the keys of EXPERT_SYSTEM_PROMPT
Identities == {"attitude", "gps", "ekf", "parameters"}

NumericStrings == {"5000"}

\* float(time_window) returns, instead of raising ValueError or TypeError
FloatOk(item) ==
  \/ item.kind = "num"
  \/ item.kind = "str" /\ item.v \in NumericStrings

\* the windows for which debug_chatbot stores flight data
RECURSIVE ConvertedWindows(_)
ConvertedWindows(items) ==
  IF items = <<>> THEN <<>>
  ELSE (IF FloatOk(Head(items)) THEN <<Head(items)>> ELSE <<>>)
         \o ConvertedWindows(Tail(items))

\* float(time_window), for the items FloatOk accepts
FloatOf(item) ==
  IF item.kind = "num" THEN item.v
  ELSE CASE item.v = "5000" -> 5000
         [] OTHER -> 0

\* the key of flight_data under which the data of a window is stored
WindowKey(item) ==
  IF item.kind = "str" THEN item.v ELSE ToString(item.v) \o ".0"

\* lines 332 to 343: flight_data after the window loop; a later window with
\* the key of an earlier one replaces it
FlightData(log_id, log, items) ==
  LET converted == ConvertedWindows(items) IN
  [key \in {WindowKey(converted[i]) : i \in 1..Len(converted)} |->
     LET last == CHOOSE i \in 1..Len(converted) :
                   /\ WindowKey(converted[i]) = key
                   /\ \A j \in (i + 1)..Len(converted) : WindowKey(converted[j]) # key
     IN get_flight_data(log_id, log, FloatOf(converted[last]), SignalsNone, 1)]

\* call_expert gets as far as its reasoning call: the expert is a string that
\* re.search accepts and a key of EXPERT_SYSTEM_PROMPT
ExpertCallable(expert) == expert.kind = "str" /\ expert.v \in Identities

\* EXPERT_SIGNAL_MAPPING of call_expert
EXPERT_SIGNAL_MAPPING ==
  [attitude |-> {"ATT"},
   gps |-> {"GPS", "GPS[0]", "GPS[1]"},
   ekf |-> {"XKF", "XKF0", "XKF1", "XKF2", "EKF"},
   parameters |-> {"PARM"}]

\* call_expert, lines 248 to 262: filtered_flight_data
FilteredFlightData(expert, flight_data) ==
  LET relevant ==
        IF "signals" \in DOMAIN flight_data /\ expert \in DOMAIN EXPERT_SIGNAL_MAPPING
        THEN {sig_type \in DOMAIN flight_data["signals"] :
                sig_type \in EXPERT_SIGNAL_MAPPING[expert]}
        ELSE {}
      kept == (IF relevant # {} THEN {"signals"} ELSE {})
                \cup ({"anomalies", "context"} \cap DOMAIN flight_data)
  IN [key \in kept |->
        IF key = "signals"
        THEN [sig_type \in relevant |-> flight_data["signals"][sig_type]]
        ELSE flight_data[key]]

\* call_expert, line 267: flight_data_to_dump
FlightDataToDump(expert, flight_data) ==
  LET filtered == FilteredFlightData(expert, flight_data) IN
  IF DOMAIN filtered # {} THEN filtered ELSE flight_data

\* str.lower(), for the names written with capitals in the model
Lower(str) ==
  CASE str = "GPS" -> "gps"
    [] str = "GPS_Navigation" -> "gps_navigation"
    [] OTHER -> str

\* re.search(document_type, doc['document_type'], re.IGNORECASE), for the
\* expert names and the document types of a collection
ReSearch(document_type, doc_type) ==
  <<Lower(document_type), Lower(doc_type)>> \in
    { <<"attitude", "attitude_control">>, <<"gps", "gps_navigation">>,
      <<"ekf", "ekf_quaternion">>, <<"parameters", "parameters">> }

\* line 363: "A and B or C" is "(A and B) or C", so for a document without the
\* key document_type the test goes on to doc['document_type']: KeyError
RagDocsKeyError(file, document_type) ==
  /\ document_type # ""
  /\ \E i \in 1..Len(file.documents) :
       "document_type" \notin DOMAIN file.documents[i]

\* A get_rag_docs that ignores the document type asked for.
get_rag_docs_unfiltered(file, document_type) == file.documents

\* ChatAgent.get_rag_docs on a file that holds a collection; the document
\* type "" stands for None and for the empty string, which do not filter
get_rag_docs(file, document_type) ==
  IF document_type = "" THEN file.documents
  ELSE IF RagDocsKeyError(file, document_type) THEN Raised
  ELSE SelectSeq(file.documents,
                 LAMBDA doc : \/ ReSearch(document_type, doc.document_type)
                              \/ doc.document_type = "reference")

\* ChatAgent.get_chat_history: the first chat_history document of the file as
\* a list of one, the empty list for None (no such document, or the read
\* raised and the method swallowed it)
ChatAgent_get_chat_history(file) ==
  IF file.state = "ok" /\ ChatDocIndex(file.documents) # 0
  THEN << file.documents[ChatDocIndex(file.documents)] >>
  ELSE << >>

\* ChatAgent.get_context_with_chat_history, the documents it joins into the
\* context: what get_rag_docs returned, then the chat document if there is one
get_context_with_chat_history(file, document_type) ==
  get_rag_docs(file, document_type) \o ChatAgent_get_chat_history(file)

\* experts != []
ExpertsRequested(experts) == ~(experts.kind = "list" /\ experts.items = <<>>)

RunIdle ==
  [pc |-> "idle", log_id |-> NoLogId, question |-> <<>>, base |-> 0,
   raw |-> Response(JNull), experts |-> JNull, time_windows |-> JNull,
   todo |-> <<>>, flight_data |-> <<>>, outputs |-> {}, calls |-> <<>>,
   final |-> <<>>, status |-> 0, received |-> <<>>, integration |-> JNull,
   plan |-> JNull, payloads |-> <<>>, context |-> <<>>]

\* What an append leaves of the file, old before the call and new when the
\* append succeeds.  On a faulty disk the write can fail with OSError, which
\* the append swallows: in open(rag_file, "w"), and the file stays as it was,
\* or in json.dump, after open has truncated the file.
WriteOutcomes(old, new) ==
  IF disk = "ok" \/ new = old THEN {new} ELSE {new, old, Partial}

\* A step-level append into one memory shared by all logs: the entry goes into
\* every stored collection.
StepAppendShared(agent_name, answer_text) ==
  /\ clock' \in {clock, clock + 1}
  /\ files' = [id \in DOMAIN files |->
       append_agent_chat_to_history(files[id], id, agent_name, run.question,
                                    answer_text, clock')]
  /\ hist' = [hist EXCEPT ![run.log_id] =
       Append(@, [kind |-> "agent", actor |-> agent_name,
                  question |-> run.question, answer |-> answer_text,
                  ts |-> clock'])]

\* the step-level append that ends a reasoning step of the run
StepAppend(agent_name, answer_text) ==
  /\ clock' \in {clock, clock + 1}
  /\ \E left \in WriteOutcomes(files[run.log_id],
         append_agent_chat_to_history(files[run.log_id], run.log_id, agent_name,
                                      run.question, answer_text, clock')) :
       files' = [files EXCEPT ![run.log_id] = left]
  /\ hist' = [hist EXCEPT ![run.log_id] =
       Append(@, [kind |-> "agent", actor |-> agent_name,
                  question |-> run.question, answer |-> answer_text,
                  ts |-> clock'])]

\* get_rag_docs, the first statement of every reasoning step, returns: the
\* file of the run's log holds a collection
RagDocsReadable == files[run.log_id].state = "ok"

\* get_rag_docs raises (json.JSONDecodeError, FileNotFoundError) and with it
\* the reasoning step and debug_chatbot
RagDocsRaise ==
  /\ run.pc \in {"planner", "dispatch", "summarize", "general"}
  /\ ~RagDocsReadable
  /\ run' = [run EXCEPT !.pc = "failed", !.status = 500]
  /\ UNCHANGED <<disk, logs, fd, prompt, files, clock, hist, lastRead, procs, tr>>

\* ask_chat_with_context up to the call of debug_chatbot
AskChat(log_id, question) ==
  /\ run.pc = "idle"
  /\ run' = IF files[log_id].state = "absent"
            THEN [run EXCEPT !.pc = "failed", !.log_id = log_id,
                             !.question = question, !.status = 500]
            ELSE [run EXCEPT !.pc = "planner", !.log_id = log_id,
                             !.question = question,
                             !.base = Len(hist[log_id])]
  /\ UNCHANGED <<disk, logs, fd, prompt, files, clock, hist, lastRead, procs, tr>>

\* planner(): the reasoning call and its append
Planner(response) ==
  /\ run.pc = "planner"
  /\ RagDocsReadable
  /\ StepAppend("planner", response.text)
  /\ run' = [run EXCEPT !.pc = "parse", !.raw = response,
                        !.calls = Append(@, "planner"),
                        !.context =
                           get_context_with_chat_history(files[run.log_id], "")]
  /\ UNCHANGED <<disk, logs, fd, prompt, lastRead, procs, tr>>

\* debug_chatbot, lines 327 to 329: parse, then .get on the parsed value
ParsePlan ==
  /\ run.pc = "parse"
  /\ LET parsed == safe_parse_json(run.raw) IN
     run' = IF parsed.kind # "dict"     \* RecursionError, AttributeError
            THEN [run EXCEPT !.pc = "failed", !.status = 500, !.plan = parsed]
            ELSE [run EXCEPT !.pc = "windows", !.plan = parsed,
                    !.experts = DictGet(parsed, "requested_experts", JList(<<>>)),
                    !.time_windows =
                       DictGet(parsed, "requested_time_windows", JList(<<>>))]
  /\ UNCHANGED <<disk, logs, fd, prompt, files, clock, hist, lastRead, procs, tr>>

\* debug_chatbot, lines 332 to 344: the window loop and the branch
Windows ==
  /\ run.pc = "windows"
  /\ run' = IF ~Iterable(run.time_windows)
            THEN [run EXCEPT !.pc = "failed", !.status = 500]   \* TypeError
            ELSE IF ~ExpertsRequested(run.experts)
            THEN [run EXCEPT !.pc = "general",
                    !.flight_data = FlightData(run.log_id, logs[run.log_id],
                                             IterItems(run.time_windows))]
            ELSE IF ~Iterable(run.experts)
            THEN [run EXCEPT !.pc = "failed", !.status = 500]   \* TypeError
            ELSE [run EXCEPT !.pc = "dispatch",
                    !.flight_data = FlightData(run.log_id, logs[run.log_id],
                                             IterItems(run.time_windows)),
                    !.todo = IterItems(run.experts)]
  /\ UNCHANGED <<disk, logs, fd, prompt, files, clock, hist, lastRead, procs, tr>>

\* one round of the expert loop that ends before the reasoning call
ExpertRaises ==
  /\ run.pc = "dispatch"
  /\ run.todo # <<>>
  /\ ~ExpertCallable(Head(run.todo))
  /\ run' = [run EXCEPT !.pc = "failed", !.status = 500]  \* KeyError, TypeError
  /\ UNCHANGED <<disk, logs, fd, prompt, files, clock, hist, lastRead, procs, tr>>

\* one round of the expert loop: call_expert
CallExpert(response) ==
  /\ run.pc = "dispatch"
  /\ run.todo # <<>>
  /\ ExpertCallable(Head(run.todo))
  /\ RagDocsReadable
  /\ LET expert == Head(run.todo).v IN
     /\ StepAppend("expert:" \o expert, response.text)
     /\ run' = [run EXCEPT !.todo = Tail(@),
                           !.outputs = @ \cup {expert},
                           !.calls = Append(@, "expert:" \o expert),
                           !.received = (expert :>
                              [flight_data |-> FlightDataToDump(expert, run.flight_data),
                               rag_docs |-> get_rag_docs(files[run.log_id], expert)])
                              @@ @,
                           !.payloads = (expert :> safe_parse_json(response)) @@ @]
  /\ UNCHANGED <<disk, logs, fd, prompt, lastRead, procs, tr>>

\* An integration stage that raises after its reasoning call and returns
\* nothing.
CallIntegrationRaises(response) ==
  /\ run.pc = "dispatch"
  /\ run.todo = <<>>
  /\ RagDocsReadable
  /\ StepAppend("integration", response.text)
  /\ run' = [run EXCEPT !.pc = "failed", !.status = 500,
                        !.calls = Append(@, "integration")]
  /\ UNCHANGED <<disk, logs, fd, prompt, lastRead, procs, tr>>

\* call_integration
CallIntegration(response) ==
  /\ run.pc = "dispatch"
  /\ run.todo = <<>>
  /\ RagDocsReadable
  /\ StepAppend("integration", response.text)
  /\ run' = [run EXCEPT !.pc = "summarize", !.calls = Append(@, "integration"),
                        !.integration = safe_parse_json(response)]
  /\ UNCHANGED <<disk, logs, fd, prompt, lastRead, procs, tr>>

\* call_summarizeForUser, and the return of debug_chatbot
CallSummarize(answer) ==
  /\ run.pc = "summarize"
  /\ RagDocsReadable
  /\ StepAppend("summarizeForUser", answer)
  /\ run' = [run EXCEPT !.pc = "answered", !.final = answer,
                        !.calls = Append(@, "summarizeForUser")]
  /\ UNCHANGED <<disk, logs, fd, prompt, lastRead, procs, tr>>

\* call_general, and the return of debug_chatbot
CallGeneral(answer) ==
  /\ run.pc = "general"
  /\ RagDocsReadable
  /\ StepAppend("general", answer)
  /\ run' = [run EXCEPT !.pc = "answered", !.final = answer,
                        !.calls = Append(@, "general")]
  /\ UNCHANGED <<disk, logs, fd, prompt, lastRead, procs, tr>>

\* ask_chat_with_context after debug_chatbot: append_chat_to_rag, the reply
Reply ==
  /\ run.pc = "answered"
  /\ clock' \in {clock, clock + 1}
  /\ \E left \in WriteOutcomes(files[run.log_id],
         append_chat_to_rag(files[run.log_id], run.log_id, run.question,
                            run.final, clock')) :
       files' = [files EXCEPT ![run.log_id] = left]
  /\ hist' = [hist EXCEPT ![run.log_id] =
       Append(@, [kind |-> "user", actor |-> "user", question |-> run.question,
                  answer |-> run.final, ts |-> clock'])]
  /\ run' = [run EXCEPT !.pc = "done", !.status = 200]
  /\ UNCHANGED <<disk, logs, fd, prompt, lastRead, procs, tr>>

(***************************************************************************)
(* The memory store used call by call (SpecStore): every call runs alone.   *)
(***************************************************************************)
AgentNames == {"planner"}

\* questions and answers: one line, several lines, and text with the delimiter
QAPairs ==
  { [q |-> <<"x">>, a |-> <<"y">>],
    [q |-> <<"x", NL, "y">>, a |-> <<"y", SP, ChatDelim, SP, "x">>] }

\* the texts tried with a log id: nothing is stored for an id never ingested
QAFor(log_id) ==
  IF log_id \in Ingested THEN QAPairs ELSE {[q |-> <<"x">>, a |-> <<"y">>]}

RECURSIVE SumLen(_, _)
SumLen(f, S) ==
  IF S = {} THEN 0
  ELSE LET x == CHOOSE y \in S : TRUE IN Len(f[x]) + SumLen(f, S \ {x})

Calls == SumLen(hist, AllIds)

NoRead == [kind |-> "none", log_id |-> NoLogId, state |-> "absent", messages |-> <<>>]

AgentAppend(log_id, agent_name, qa, ts) ==
  /\ Calls < MaxOps
  /\ files' = [files EXCEPT ![log_id] =
       append_agent_chat_to_history(@, log_id, agent_name, qa.q, qa.a, ts)]
  /\ hist' = [hist EXCEPT ![log_id] =
       Append(@, [kind |-> "agent", actor |-> agent_name,
                  question |-> qa.q, answer |-> qa.a, ts |-> ts])]
  /\ clock' = ts
  /\ UNCHANGED <<disk, logs, fd, prompt, lastRead, procs, run, tr>>

RagAppend(log_id, qa, ts) ==
  /\ Calls < MaxOps
  /\ files' = [files EXCEPT ![log_id] =
       append_chat_to_rag(@, log_id, qa.q, qa.a, ts)]
  /\ hist' = [hist EXCEPT ![log_id] =
       Append(@, [kind |-> "user", actor |-> "user",
                  question |-> qa.q, answer |-> qa.a, ts |-> ts])]
  /\ clock' = ts
  /\ UNCHANGED <<disk, logs, fd, prompt, lastRead, procs, run, tr>>

ReadHistory(log_id) ==
  /\ lastRead' = [kind |-> "history", log_id |-> log_id,
                  state |-> files[log_id].state,
                  messages |-> get_chat_history(files[log_id], log_id)]
  /\ UNCHANGED <<disk, logs, fd, prompt, files, clock, hist, procs, run, tr>>

InitStore ==
  /\ files = UploadedFiles
  /\ clock = 0
  /\ hist = [id \in AllIds |-> <<>>]
  /\ lastRead = NoRead
  /\ procs = <<>>
  /\ run = RunIdle
  /\ tr = TrOff
  /\ logs = UploadedLogs(LogShort)
  /\ fd = FdIdle
  /\ prompt = NoPrompt
  /\ disk = "ok"

NextStore ==
  \/ \E id \in AllIds, n \in AgentNames, ts \in {clock, clock + 1} :
       \E qa \in QAFor(id) : AgentAppend(id, n, qa, ts)
  \/ \E id \in AllIds, ts \in {clock, clock + 1} :
       \E qa \in QAFor(id) : RagAppend(id, qa, ts)
  \/ \E id \in Ingested : ReadHistory(id)

SpecStore == InitStore /\ [][NextStore]_vars

(***************************************************************************)
(* The texts the reasoning call returns in the model.                       *)
(***************************************************************************)
ExpertsOptions ==
  { JList(<<>>), JList(<<JStr("gps")>>), JList(<<JStr("gps"), JStr("attitude")>>),
    JList(<<JStr("attitude"), JStr("gps")>>),
    JList(<<JStr("gps"), JStr("gps")>>), JList(<<JStr("battery")>>),
    JList(<<JStr("gps"), JStr("battery")>>), JStr("gps"), JNull, JDict(<<>>) }

WindowsOptions ==
  { JList(<<>>), JList(<<JNum(5000)>>), JList(<<JStr("abc"), JStr("5000")>>),
    JList(<<JNum(4500), JNum(5000)>>), JNull }

PlannerJsons ==
  { JInvalid, JTooDeep, JNum(7), JList(<<JStr("gps")>>), JDict(<<>>) }
    \cup { JDict([requested_experts |-> e]) : e \in ExpertsOptions }
    \cup { JDict([requested_time_windows |-> w]) : w \in WindowsOptions }
    \cup { JDict([requested_experts |-> e, requested_time_windows |-> w]) :
             e \in ExpertsOptions, w \in WindowsOptions }

ExpertJsons == { JInvalid, JDict([suggested_cause |-> JStr("x")]) }

IntegrationJsons ==
  { JInvalid, JDict([findings |-> JList(<<>>)]),
    JDict([additional_experts |->
             JList(<<JStr("attitude"), JStr("gps"), JStr("ekf"), JStr("parameters")>>)]) }

Answers == { <<"y">>, <<"y", NL, "x">> }

Questions == { <<"x">> }

\* the appends of an earlier request that took the no-expert path
EarlierCalls ==
  << [kind |-> "agent", actor |-> "planner", question |-> <<"x">>,
      answer |-> <<"y">>, ts |-> 0],
     [kind |-> "agent", actor |-> "general", question |-> <<"x">>,
      answer |-> <<"y">>, ts |-> 0],
     [kind |-> "user", actor |-> "user", question |-> <<"x">>,
      answer |-> <<"y">>, ts |-> 0] >>

RECURSIVE Replay(_, _, _)
Replay(file, log_id, calls) ==
  IF calls = <<>> THEN file
  ELSE LET c == Head(calls) IN
       Replay(IF c.kind = "agent"
              THEN append_agent_chat_to_history(file, log_id, c.actor,
                                                c.question, c.answer, c.ts)
              ELSE append_chat_to_rag(file, log_id, c.question, c.answer, c.ts),
              log_id, Tail(calls))

\* a request arrives at a log just uploaded, or at one with an earlier request
InitRun ==
  /\ \E earlier \in {<<>>, EarlierCalls} :
       /\ hist = [id \in AllIds |-> IF id \in Ingested THEN earlier ELSE <<>>]
       /\ files = [id \in AllIds |-> Replay(UploadedFiles[id], id, hist[id])]
  /\ clock = 0
  /\ lastRead = NoRead
  /\ procs = <<>>
  /\ run = RunIdle
  /\ tr = TrOff
  /\ logs = UploadedLogs(LogShort)
  /\ fd = FdIdle
  /\ prompt = NoPrompt
  /\ disk = "ok"

NextRun ==
  \/ \E id \in Ingested \cup NeverIngested, q \in Questions : AskChat(id, q)
  \/ \E j \in PlannerJsons : Planner(Response(j))
  \/ ParsePlan
  \/ Windows
  \/ ExpertRaises
  \/ \E j \in ExpertJsons : CallExpert(Response(j))
  \/ \E j \in IntegrationJsons : CallIntegration(Response(j))
  \/ \E a \in Answers : CallSummarize(a)
  \/ \E a \in Answers : CallGeneral(a)
  \/ Reply
  \* the flight-data endpoint, called once the request has been answered
  \/ /\ run.pc = "done"
     /\ \E sig \in {SignalsNone, SignalList(<<"ATT">>)} :
          GetFlightData(run.log_id, 5000, sig, 1)

SpecRun == InitRun /\ [][NextRun]_vars

\* debug_chatbot is straight-line code: once the integration stage is entered
\* it runs on, and its reasoning call returns
SpecRunFair ==
  SpecRun /\ WF_vars(\E j \in IntegrationJsons : CallIntegration(Response(j)))

(***************************************************************************)
(* The memory store under concurrent clients (SpecConc): server processes   *)
(* and scripts that work on the files of data/ at the same time. A client   *)
(* is what an orchestration run is to the store: a sequence of appends and  *)
(* reads. The code takes no lock, so the steps of an append (read the file, *)
(* open it for writing, which truncates it, dump the collection) interleave *)
(* with the steps of the other clients.                                     *)
(***************************************************************************)
Procs == {1, 2}

ProcIdle == [pc |-> "idle", log_id |-> NoLogId, rag_data |-> <<>>, calls |-> 0]

\* another client has the same file open for writing
OtherWriter(p) ==
  \E o \in Procs \ {p} : procs[o].pc = "opened" /\ procs[o].log_id = procs[p].log_id

\* _append_agent_chat_to_history, lines 76 to 130: the guards, json.load and
\* the new collection, built in memory
BeginAgentAppend(p, log_id, agent_name, qa) ==
  /\ procs[p].pc = "idle"
  /\ procs[p].calls < MaxProcOps
  /\ clock' = clock + 1
  /\ hist' = [hist EXCEPT ![log_id] =
       Append(@, [kind |-> "agent", actor |-> agent_name,
                  question |-> qa.q, answer |-> qa.a, ts |-> clock'])]
  /\ procs' = [procs EXCEPT ![p] =
       IF log_id = NoLogId \/ files[log_id].state # "ok"
       THEN [@ EXCEPT !.calls = @ + 1]                       \* return
       ELSE [pc |-> "loaded", log_id |-> log_id, calls |-> @.calls + 1,
             rag_data |-> AppendEntry(files[log_id].documents, log_id,
                            AgentEntry(clock', agent_name, qa.q, qa.a), clock')]]
  /\ UNCHANGED <<disk, logs, fd, prompt, files, lastRead, run, tr>>

\* append_chat_to_rag, lines 182 to 226
BeginRagAppend(p, log_id, qa) ==
  /\ procs[p].pc = "idle"
  /\ procs[p].calls < MaxProcOps
  /\ clock' = clock + 1
  /\ hist' = [hist EXCEPT ![log_id] =
       Append(@, [kind |-> "user", actor |-> "user",
                  question |-> qa.q, answer |-> qa.a, ts |-> clock'])]
  /\ procs' = [procs EXCEPT ![p] =
       IF files[log_id].state # "ok"
       THEN [@ EXCEPT !.calls = @ + 1]                       \* except Exception
       ELSE [pc |-> "loaded", log_id |-> log_id, calls |-> @.calls + 1,
             rag_data |-> AppendEntry(files[log_id].documents, log_id,
                            ChatEntry(clock', qa.q, qa.a), clock')]]
  /\ UNCHANGED <<disk, logs, fd, prompt, files, lastRead, run, tr>>

\* open(rag_file, "w"): the file is truncated
OpenForWrite(p) ==
  /\ procs[p].pc = "loaded"
  /\ files' = [files EXCEPT ![procs[p].log_id] = Partial]
  /\ procs' = [procs EXCEPT ![p].pc = "opened"]
  /\ UNCHANGED <<disk, logs, fd, prompt, clock, hist, lastRead, run, tr>>

\* json.dump and the close of the file. Two clients that write the file at
\* the same time each write from offset 0: the file ends up as the collection
\* of one of them or as a mix of both that is no JSON document.
Dump(p) ==
  /\ procs[p].pc = "opened"
  /\ \E garbled \in (IF OtherWriter(p) THEN {FALSE, TRUE} ELSE {FALSE}) :
       files' = [files EXCEPT ![procs[p].log_id] =
                   IF garbled THEN Partial ELSE Stored(procs[p].rag_data)]
  /\ procs' = [procs EXCEPT ![p] = [ProcIdle EXCEPT !.calls = procs[p].calls]]
  /\ UNCHANGED <<disk, logs, fd, prompt, clock, hist, lastRead, run, tr>>

\* ChatAgent.get_rag_docs without a type filter: open and json.load
ReadRagDocs(p, log_id) ==
  /\ procs[p].pc = "idle"
  /\ lastRead' = [kind |-> "rag_docs", log_id |-> log_id,
                  state |-> files[log_id].state, messages |-> <<>>]
  /\ UNCHANGED <<disk, logs, fd, prompt, files, clock, hist, procs, run, tr>>

\* each client asks its own question
ClientQA(p) == [q |-> <<"x", ToString(p)>>, a |-> <<"y">>]

InitConc ==
  /\ files = UploadedFiles
  /\ clock = 0
  /\ hist = [id \in AllIds |-> <<>>]
  /\ lastRead = NoRead
  /\ procs = [p \in Procs |-> ProcIdle]
  /\ run = RunIdle
  /\ tr = TrOff
  /\ logs = UploadedLogs(LogShort)
  /\ fd = FdIdle
  /\ prompt = NoPrompt
  /\ disk = "ok"

NextConc ==
  \/ \E p \in Procs, id \in Ingested, n \in AgentNames :
       BeginAgentAppend(p, id, n, ClientQA(p))
  \/ \E p \in Procs, id \in Ingested : BeginRagAppend(p, id, ClientQA(p))
  \/ \E p \in Procs : OpenForWrite(p)
  \/ \E p \in Procs : Dump(p)
  \/ \E p \in Procs, id \in Ingested : ReadRagDocs(p, id)

SpecConc == InitConc /\ [][NextConc]_vars

(***************************************************************************)
(* Properties of the memory store (SpecStore).                              *)
(***************************************************************************)
ChatDoc(id) == files[id].documents[ChatDocIndex(files[id].documents)]

HasChatDoc(id) ==
  files[id].state = "ok" /\ ChatDocIndex(files[id].documents) # 0

ChatDocCount(id) ==
  Cardinality({i \in 1..Len(files[id].documents) :
                 files[id].documents[i].document_type = "chat_history"})

\* C3: on an ingested log that started without a chat-history document, after
\* n >= 1 appends made one after the other the document has message_count = n,
\* created_at = the timestamp of the first append and last_updated = the
\* timestamp of the latest append.
C3_CountersFollowAppends ==
  \A id \in Ingested :
    LET n == Len(hist[id]) IN
    n >= 1 =>
      /\ HasChatDoc(id)
      /\ ChatDoc(id).metadata.message_count = n
      /\ ChatDoc(id).metadata.created_at = hist[id][1].ts
      /\ ChatDoc(id).metadata.last_updated = hist[id][n].ts

\* three appends of both kinds, the last one later than the first
C3_Witness ==
  \E id \in Ingested :
    /\ Len(hist[id]) = 3
    /\ hist[id][1].ts < hist[id][3].ts
    /\ \E k \in 1..3 : hist[id][k].kind = "agent"
    /\ \E k \in 1..3 : hist[id][k].kind = "user"
    /\ ChatDoc(id).metadata.message_count = 3
    /\ ChatDoc(id).metadata.created_at < ChatDoc(id).metadata.last_updated

\* C4: after step-level appends (_append_agent_chat_to_history) only, the
\* history reader returns one parsed entry per append, in insertion order,
\* with the question and the answer that were appended.
C4_AgentAppendReadRoundTrip ==
  \A id \in Ingested :
    (\A k \in 1..Len(hist[id]) : hist[id][k].kind = "agent") =>
      LET m == get_chat_history(files[id], id) IN
      /\ Len(m) = Len(hist[id])
      /\ \A k \in 1..Len(m) :
           /\ m[k].question = hist[id][k].question
           /\ m[k].answer = hist[id][k].answer

\* C5: whatever appends were made, in whatever order, a collection holds at
\* most one document of type chat_history.
C5_AtMostOneChatDoc ==
  \A id \in AllIds : ChatDocCount(id) <= 1

\* a log appended to by the agent and by the API layer
C5_Witness ==
  \E id \in Ingested :
    /\ \E k \in 1..Len(hist[id]) : hist[id][k].kind = "agent"
    /\ \E k \in 1..Len(hist[id]) : hist[id][k].kind = "user"
    /\ ChatDocCount(id) = 1
    /\ ChatDoc(id).metadata.message_count >= 2

\* C8: a call of _append_agent_chat_to_history for an empty log id or for a
\* log without a collection changes nothing that is stored: no collection and
\* no chat-history document is created.
C8_AppendNoOpWithoutCollection ==
  [][\A id \in AllIds :
       ( /\ Len(hist'[id]) = Len(hist[id]) + 1
         /\ hist'[id][Len(hist'[id])].kind = "agent"
         /\ (id = NoLogId \/ files[id].state = "absent") )
       => files' = files]_vars

\* the agent append was called for the empty id and for a log never ingested
C8_Witness ==
  /\ \E k \in 1..Len(hist[NoLogId]) : hist[NoLogId][k].kind = "agent"
  /\ \E id \in NeverIngested :
       /\ \E k \in 1..Len(hist[id]) : hist[id][k].kind = "agent"
       /\ files[id] = Absent
  /\ files[NoLogId] = Absent

InitTrunc ==
  /\ files = UploadedFiles
  /\ clock = 0
  /\ hist = [id \in AllIds |-> <<>>]
  /\ lastRead = NoRead
  /\ procs = <<>>
  /\ run = RunIdle
  /\ tr \in {[stage |-> "in", s |-> s, n |-> n, out |-> <<>>, out2 |-> <<>>] :
               s \in TruncTexts, n \in TruncBudgets}
  /\ logs = UploadedLogs(LogShort)
  /\ fd = FdIdle
  /\ prompt = NoPrompt
  /\ disk = "ok"

NextTrunc == TruncateOnce \/ TruncateAgain

SpecTrunc == InitTrunc /\ [][NextTrunc]_vars

(***************************************************************************)
(* Properties of the store under concurrent clients (SpecConc).             *)
(***************************************************************************)
Quiescent == \A p \in Procs : procs[p].pc = "idle"

\* the entry text an append call writes
EntryOf(c) ==
  IF c.kind = "agent" THEN AgentEntry(c.ts, c.actor, c.question, c.answer)
  ELSE ChatEntry(c.ts, c.question, c.answer)

\* part occurs in text as a contiguous piece
Occurs(part, text) ==
  \E i \in 0..(Len(text) - Len(part)) : SubSeq(text, i + 1, i + Len(part)) = part

\* C6: when two clients append to the same log concurrently no append is lost:
\* once all appends have returned, message_count is the number of appends made
\* by both and the entry of every append is in the content.
C6_NoAppendLost ==
  Quiescent =>
    \A id \in Ingested :
      Len(hist[id]) >= 1 =>
        /\ HasChatDoc(id)
        /\ ChatDoc(id).metadata.message_count = Len(hist[id])
        /\ \A k \in 1..Len(hist[id]) : Occurs(EntryOf(hist[id][k]), ChatDoc(id).content)

\* C7: a reader of the collection that runs while an append is in progress
\* sees the collection as it was before the append or as it is after it, never
\* a partially written file.
C7_ReadersSeeWholeCollection ==
  lastRead.kind = "rag_docs" => lastRead.state # "partial"

(***************************************************************************)
(* Properties of one chat request (SpecRun).                                *)
(***************************************************************************)
\* debug_chatbot was entered and has returned or raised
RunOver == run.pc \in {"answered", "done", "failed"} /\ run.calls # <<>>

\* the experts the planner's answer names: the items of requested_experts
RequestedExperts ==
  IF /\ run.raw.json.kind = "dict"
     /\ "requested_experts" \in DOMAIN run.raw.json.fields
     /\ run.raw.json.fields.requested_experts.kind = "list"
  THEN run.raw.json.fields.requested_experts.items
  ELSE <<>>

ExpertCalls(items) == [i \in 1..Len(items) |-> "expert:" \o items[i].v]

\* the agent names of the step-level appends of this run, in order
RunAppends ==
  LET h == hist[run.log_id] IN
  [i \in 1..(Len(h) - run.base - (IF run.pc = "done" THEN 1 ELSE 0)) |->
     h[run.base + i].actor]

\* C1: in every run of debug_chatbot the planner is called first; then, if it
\* requested no experts, only the general answer is produced, and otherwise
\* every requested expert is called, then the integration, then the summarizer,
\* in that order; the run ends in GENERAL_ANSWER or in SUMMARIZE and nothing is
\* called after the summarizer.
C1_PlannerThenExactlyOnePath ==
  RunOver =>
    /\ run.pc # "failed"
    /\ IF RequestedExperts = <<>>
       THEN run.calls = <<"planner", "general">>
       ELSE run.calls = <<"planner">> \o ExpertCalls(RequestedExperts)
                          \o <<"integration", "summarizeForUser">>

\* C2: a run whose planner requests k >= 1 experts makes exactly k + 3
\* step-level appends, in the order planner, each expert, integration,
\* summarizer; a run on the no-expert path makes exactly 2, planner and general.
C2_AppendsPerRun ==
  RunOver =>
    /\ Len(RequestedExperts) >= 1 =>
         RunAppends = <<"planner">> \o ExpertCalls(RequestedExperts)
                        \o <<"integration", "summarizeForUser">>
    /\ (\E i \in 1..Len(run.calls) : run.calls[i] = "general") =>
         RunAppends = <<"planner", "general">>

(***************************************************************************)
(* Properties of the token budgeter (SpecTrunc).                            *)
(***************************************************************************)
\* C9 as stated: for every text s and every budget n, n <= 0 included, the
\* result of truncate(s, n) is at most max(n * AVG_CHARS_PER_TOKEN, 3) long.
C9_LengthBoundAnyBudget ==
  tr.stage \in {"once", "twice"} =>
    Len(tr.out) <= Max(tr.n * AVG_CHARS_PER_TOKEN, 3)

\* C9 amended: for every text s and every budget n >= 1 the result is at most
\* max(n * AVG_CHARS_PER_TOKEN, 3) long; for n <= 0 the result is s itself,
\* whatever its length.
C9_LengthBoundPositiveBudget ==
  tr.stage \in {"once", "twice"} =>
    /\ tr.n >= 1 => Len(tr.out) <= Max(tr.n * AVG_CHARS_PER_TOKEN, 3)
    /\ tr.n <= 0 => tr.out = tr.s

\* a text longer than its positive budget was cut down to the budget
C9_Witness ==
  /\ tr.stage = "once"
  /\ tr.n >= 1
  /\ Len(tr.s) > tr.n * AVG_CHARS_PER_TOKEN
  /\ Len(tr.out) = tr.n * AVG_CHARS_PER_TOKEN

\* C10: truncating a truncated text with the same budget changes nothing, and
\* a text of at most n * AVG_CHARS_PER_TOKEN characters is returned as it is.
C10_IdempotentAndIdentityOnFit ==
  /\ tr.stage = "twice" => tr.out2 = tr.out
  /\ (tr.stage \in {"once", "twice"} /\ Len(tr.s) <= tr.n * AVG_CHARS_PER_TOKEN)
       => tr.out = tr.s

\* a text that was really cut, truncated a second time
C10_Witness ==
  /\ tr.stage = "twice"
  /\ tr.n >= 1
  /\ Len(tr.s) > tr.n * AVG_CHARS_PER_TOKEN
  /\ tr.out # tr.s
  /\ tr.out2 = tr.out

\* C11: when truncate(s, n) shortens s (n > 0 and s longer than
\* n * AVG_CHARS_PER_TOKEN characters) the result is the first
\* n * AVG_CHARS_PER_TOKEN - 3 characters of s followed by the three-character
\* ellipsis marker, exactly n * AVG_CHARS_PER_TOKEN characters in all; when
\* n <= 0 or s is empty the result is s.
C11_CutKeepsHeadAddsEllipsis ==
  tr.stage \in {"once", "twice"} =>
    LET max_chars == tr.n * AVG_CHARS_PER_TOKEN IN
    /\ (tr.n > 0 /\ Len(tr.s) > max_chars) =>
         /\ Len(tr.out) = max_chars
         /\ SubSeq(tr.out, 1, max_chars - 3) = SubSeq(tr.s, 1, max_chars - 3)
         /\ SubSeq(tr.out, max_chars - 2, max_chars) = Ellipsis
    /\ (tr.n <= 0 \/ tr.s = <<>>) => tr.out = tr.s

\* a cut text whose kept head differs from its own tail and from the marker
C11_Witness ==
  /\ tr.stage = "once"
  /\ tr.n = 1
  /\ tr.s = <<"x", Dot, "x", "x", Dot>>
  /\ tr.out = <<"x", Dot, Dot, Dot>>

(***************************************************************************)
(* The extractor called directly (SpecExtract): any log id, timestamp,      *)
(* signal list and window, on a short or a long Log Record.                 *)
(***************************************************************************)
Timestamps == {3000, 3500, 4500, 5000, 5250, 6500, 7500}

WindowSecs == 0..MaxWindowSec

SignalChoices ==
  { SignalsNone, SignalList(<<>>), SignalList(<<"ATT">>), SignalList(<<"GPS">>),
    SignalList(<<"ATT", "GPS">>), SignalList(<<"GPS[1]">>), SignalList(<<"MAG">>),
    SignalList(<<"BARO">>) }

InitExtract ==
  /\ files = UploadedFiles
  /\ clock = 0
  /\ hist = [id \in AllIds |-> <<>>]
  /\ lastRead = NoRead
  /\ procs = <<>>
  /\ run = RunIdle
  /\ tr = TrOff
  /\ \E record \in LogRecords : logs = UploadedLogs(record)
  /\ fd = FdIdle
  /\ prompt = NoPrompt
  /\ disk = "ok"

\* one call in a behaviour: the result depends on nothing an earlier call left
NextExtract ==
  /\ ~fd.called
  /\ \E id \in AllIds, t \in Timestamps, sig \in SignalChoices, w \in WindowSecs :
       GetFlightData(id, t, sig, w)

SpecExtract == InitExtract /\ [][NextExtract]_vars

(***************************************************************************)
(* Properties of the extractor (SpecExtract).                               *)
(***************************************************************************)
\* the call returned a result, not an error
Extracting == fd.called /\ "error" \notin DOMAIN fd.result

\* the names the call asks for
Requested == IF fd.signals.given THEN fd.signals.list ELSE DEFAULT_SIGNALS

\* the stored time axis of a signal name, <<>> when the log has none
TimesOf(signal) ==
  LET time_series == logs[fd.log_id].log_data.time_series_data
      key == SignalKey(time_series, signal)
  IN IF key = "" THEN <<>> ELSE time_series[key].data["time_boot_ms"]

FieldsOf(signal) ==
  LET time_series == logs[fd.log_id].log_data.time_series_data
      data == time_series[SignalKey(time_series, signal)].data
  IN [f \in DOMAIN data \ {"time_boot_ms"} |-> data[f]]

\* the window of the call in milliseconds, and the samples that lie in it
WindowMs == fd.window_sec * 1000

Within(signal) ==
  {i \in 1..Len(TimesOf(signal)) :
     /\ fd.timestamp_ms - WindowMs \div 2 <= TimesOf(signal)[i]
     /\ TimesOf(signal)[i] <= fd.timestamp_ms + WindowMs \div 2}

First(S) == CHOOSE i \in S : \A j \in S : i <= j
Last(S) == CHOOSE i \in S : \A j \in S : i >= j

\* C14: for every requested signal the extractor collects exactly the samples
\* whose time t satisfies timestamp_ms - window/2 <= t <= timestamp_ms +
\* window/2, both bounds included: it counts them all, reports the first and
\* the last of them as the time range, takes each field's minimum and maximum
\* over them and, while they are no more than the value limit, returns their
\* field values and no others; a signal with no sample in the window is left
\* out.
C14_WindowInclusiveBothBounds ==
  Extracting =>
    \A k \in 1..Len(Requested) :
      LET s == Requested[k]
          W == Within(s)
          got == fd.result.signals
      IN IF W = {} THEN s \notin DOMAIN got
         ELSE /\ s \in DOMAIN got
              /\ got[s].samples = Cardinality(W)
              /\ got[s].time_range = <<TimesOf(s)[First(W)], TimesOf(s)[Last(W)]>>
              /\ W = First(W)..Last(W)
              /\ \A f \in DOMAIN FieldsOf(s) :
                   /\ f \in DOMAIN got[s].fields
                   /\ \A i \in W : /\ got[s].fields[f].min <= FieldsOf(s)[f][i]
                                    /\ got[s].fields[f].max >= FieldsOf(s)[f][i]
                   /\ Cardinality(W) <= VALUES_LIMIT =>
                        got[s].fields[f].values = SubSeq(FieldsOf(s)[f], First(W), Last(W))

\* a one-second window around 5000: the samples at 4500, 5000 and 5500
C14_Witness ==
  /\ Extracting
  /\ fd.timestamp_ms = 5000
  /\ fd.window_sec = 1
  /\ fd.signals = SignalList(<<"ATT">>)
  /\ logs[fd.log_id].log_data = LogShort
  /\ fd.result.signals["ATT"].samples = 3
  /\ fd.result.signals["ATT"].time_range = <<4500, 5500>>
  /\ fd.result.signals["ATT"].fields["Roll"].values = <<12, 13, 14>>

\* C15: when the timestamp lies before the first sample or after the last
\* sample of a requested signal, the extraction as a whole returns an
\* OutOfRange error; it never returns a result in which that signal is
\* missing or empty.
C15_OutOfRangeIsAnError ==
  (fd.called /\ logs[fd.log_id].state = "ok") =>
    \A k \in 1..Len(Requested) :
      LET times == TimesOf(Requested[k]) IN
      (times # <<>> /\ (fd.timestamp_ms < times[1]
                          \/ fd.timestamp_ms > times[Len(times)]))
        => "error" \in DOMAIN fd.result

\* C16: when more samples lie in the window than the value limit allows, the
\* returned values are spread over the whole window: the first returned value
\* is the one of the first sample in the window and the last returned value
\* is the one of the last sample in the window.
C16_CapKeepsFirstAndLast ==
  Extracting =>
    \A s \in DOMAIN fd.result.signals :
      \A f \in DOMAIN fd.result.signals[s].fields :
        LET W == Within(s)
            v == fd.result.signals[s].fields[f].values
        IN Cardinality(W) > VALUES_LIMIT =>
             /\ v # <<>>
             /\ v[1] = FieldsOf(s)[f][First(W)]
             /\ v[Len(v)] = FieldsOf(s)[f][Last(W)]

\* C17: a call with an empty signal list returns what the same call without
\* a signal list returns: the extraction of the full default signal set.
C17_EmptyListMeansDefault ==
  (fd.called /\ fd.signals = SignalList(<<>>)) =>
    fd.result = get_flight_data(fd.log_id, logs[fd.log_id], fd.timestamp_ms,
                                SignalsNone, fd.window_sec)

(***************************************************************************)
(* Properties of one chat request (SpecRun): telemetry and planner output.  *)
(***************************************************************************)
\* C18: the Log Record is read-only for the orchestration core: no step of a
\* debug_chatbot run, no memory append and no get_flight_data call changes
\* the stored Log Record of any log.
C18_LogRecordReadOnly == [][logs' = logs]_vars

\* a complete run that extracted telemetry and appended to memory, followed
\* by a direct get_flight_data call, with the Log Record as uploaded
C18_Witness ==
  /\ run.pc = "done"
  /\ DOMAIN run.flight_data # {}
  /\ Len(hist[run.log_id]) > run.base
  /\ files[run.log_id] # UploadedFiles[run.log_id]
  /\ fd.called
  /\ "ATT" \in DOMAIN fd.result.signals
  /\ logs = UploadedLogs(LogShort)

\* the planner's answer as debug_chatbot parses it
ParsedPlan == safe_parse_json(run.raw)

\* C19: when the parsed planner result has no requested_time_windows key the
\* run extracts telemetry for the whole-log window, so the specialists it
\* calls receive flight data; when it has no requested_experts key a run that
\* returns took the no-specialist path and ended with the general answer.
C19_PlannerDefaults ==
  ParsedPlan.kind = "dict" =>
    /\ (run.outputs # {} /\ "requested_time_windows" \notin DOMAIN ParsedPlan.fields)
         => DOMAIN run.flight_data # {}
    /\ (RunOver /\ run.pc # "failed"
           /\ "requested_experts" \notin DOMAIN ParsedPlan.fields)
         => run.calls = <<"planner", "general">>

\* the time windows the planner's answer names
RequestedWindows ==
  IF /\ run.raw.json.kind = "dict"
     /\ "requested_time_windows" \in DOMAIN run.raw.json.fields
     /\ run.raw.json.fields.requested_time_windows.kind = "list"
  THEN run.raw.json.fields.requested_time_windows.items
  ELSE <<>>

\* C20: in a run that consulted its specialists over w >= 1 requested time
\* windows, all of them numbers, each requested specialist made one reasoning
\* call per window.
C20_OneExpertCallPerWindow ==
  (RunOver /\ run.pc # "failed" /\ Len(RequestedExperts) >= 1
     /\ Len(RequestedWindows) >= 1
     /\ ConvertedWindows(RequestedWindows) = RequestedWindows) =>
    Cardinality({i \in 1..Len(run.calls) :
                   \E k \in 1..Len(RequestedExperts) :
                     run.calls[i] = "expert:" \o RequestedExperts[k].v})
      = Len(RequestedExperts) * Len(RequestedWindows)

(***************************************************************************)
(* Prompt composition (SpecPrompt): the fragments each reasoning call puts  *)
(* into its messages. The budgeter looks at the length of a text only, and  *)
(* so does this part of the model: a text is its number of characters.      *)
(***************************************************************************)
\* len(_truncate_text(text, max_tokens)) for a text of len characters
truncate_text_len(len, max_tokens) ==
  IF len = 0 \/ max_tokens <= 0 THEN len
  ELSE LET max_chars == max_tokens * AVG_CHARS_PER_TOKEN IN
       IF len <= max_chars THEN len
       ELSE IF max_chars <= 3 THEN max_chars
       ELSE (max_chars - 3) + 3

\* a fragment of a prompt: its name, the length of the text it was made
\* from and the length of what is sent
Fragment(part, raw, len) == <<part, raw, len>>

RawLen(fragment) == fragment[2]
SentLen(fragment) == fragment[3]

\* a fragment that is _truncate_text(text, max_tokens)
Budgeted(part, raw, max_tokens) ==
  Fragment(part, raw, truncate_text_len(raw, max_tokens))

\* ask: the question
ask_messages(question) == << Budgeted("question", question, MAX_INPUT_TOKENS) >>

\* planner: question and context in the user message
planner_messages(question, context) ==
  << Budgeted("question", question, MAX_INPUT_TOKENS),
     Budgeted("context", context, MAX_INPUT_TOKENS) >>

\* call_general: question and context in the user message
call_general_messages(question, context) ==
  << Budgeted("question", question, MAX_INPUT_TOKENS),
     Budgeted("context", context, MAX_INPUT_TOKENS) >>

\* call_summarizeForUser: context in the system message, question and the
\* integration result, as it was handed over, in the user message
call_summarizeForUser_messages(question, context, integration_result) ==
  << Budgeted("context", context, MAX_INPUT_TOKENS),
     Budgeted("question", question, MAX_INPUT_TOKENS),
     Fragment("integration_result", integration_result, integration_result) >>

\* call_expert: question, context and the flight data dump, which is cut
\* together with the 15 characters "\n\nFlight Data:\n" put in front of it
call_expert_messages(question, context, flight_data_json) ==
  << Budgeted("question", question, MAX_INPUT_TOKENS),
     Budgeted("context", context, MAX_INPUT_TOKENS),
     Budgeted("flight_data", 15 + flight_data_json, MAX_INPUT_TOKENS) >>

\* len(expert_name)
NameLen(expert_name) ==
  CASE expert_name = "attitude" -> 8
    [] expert_name = "gps" -> 3
    [] expert_name = "ekf" -> 3
    [] expert_name = "parameters" -> 10

\* lines 297 to 302: the lengths of the sections "{expert_name}: {payload_text}"
ExpertSections(payloads) ==
  LET expert_count == Max(1, Len(payloads))
      per_expert_budget == Max(1, MAX_INPUT_TOKENS \div expert_count)
  IN [k \in 1..Len(payloads) |->
        NameLen(payloads[k].expert) + 2
          + truncate_text_len(payloads[k].len, per_expert_budget)]

\* len("\n".join(sections))
JoinedLen(sections) ==
  IF sections = <<>> THEN 0 ELSE SeqSum(sections) + (Len(sections) - 1)

\* A call_integration that sends the joined sections as they are.
call_integration_messages_uncut(question, payloads) ==
  << Budgeted("question", question, MAX_INPUT_TOKENS),
     Fragment("expert_payload", JoinedLen(ExpertSections(payloads)),
              JoinedLen(ExpertSections(payloads))) >>

\* call_integration: question and the joined expert sections
call_integration_messages(question, payloads) ==
  << Budgeted("question", question, MAX_INPUT_TOKENS),
     Budgeted("expert_payload", JoinedLen(ExpertSections(payloads)),
              MAX_INPUT_TOKENS) >>

\* the reasoning call is made with these messages
Compose(call, fragments) ==
  /\ prompt' = [call |-> call, fragments |-> fragments]
  /\ UNCHANGED <<disk, files, clock, hist, lastRead, procs, run, tr, logs, fd>>

ComposeAsk(question) == Compose("ask", ask_messages(question))

ComposePlanner(question, context) ==
  Compose("planner", planner_messages(question, context))

ComposeGeneral(question, context) ==
  Compose("general", call_general_messages(question, context))

ComposeExpert(question, context, flight_data_json) ==
  Compose("expert", call_expert_messages(question, context, flight_data_json))

\* call_integration; the payloads it was given and the sections it made of
\* them are kept beside the messages
ComposeIntegration(question, payloads) ==
  /\ prompt' = [call |-> "integration",
                fragments |-> call_integration_messages(question, payloads),
                payloads |-> payloads,
                sections |-> ExpertSections(payloads)]
  /\ UNCHANGED <<disk, files, clock, hist, lastRead, procs, run, tr, logs, fd>>

ComposeSummarize(question, context, integration_result) ==
  Compose("summarizeForUser",
          call_summarizeForUser_messages(question, context, integration_result))

\* text lengths around the input budget
InputChars == MAX_INPUT_TOKENS * AVG_CHARS_PER_TOKEN

TextLens == {0, 1, InputChars - 1} \cup (InputChars..(InputChars + MaxOverrun))

PayloadLens == {1, InputChars \div 2 + 1, InputChars + MaxOverrun}

PayloadLists ==
  {<<>>}
    \cup { <<[expert |-> "gps", len |-> l]>> : l \in PayloadLens }
    \cup { <<[expert |-> "gps", len |-> l], [expert |-> "attitude", len |-> m]>> :
             l \in PayloadLens, m \in PayloadLens }
    \cup { <<[expert |-> "gps", len |-> l], [expert |-> "attitude", len |-> m],
             [expert |-> "ekf", len |-> n]>> :
             l \in PayloadLens, m \in PayloadLens, n \in PayloadLens }

InitPrompt ==
  /\ files = UploadedFiles
  /\ clock = 0
  /\ hist = [id \in AllIds |-> <<>>]
  /\ lastRead = NoRead
  /\ procs = <<>>
  /\ run = RunIdle
  /\ tr = TrOff
  /\ logs = UploadedLogs(LogShort)
  /\ fd = FdIdle
  /\ prompt = NoPrompt
  /\ disk = "ok"

NextPrompt ==
  \/ \E q \in TextLens : ComposeAsk(q)
  \/ \E q \in TextLens, c \in TextLens : ComposePlanner(q, c)
  \/ \E q \in TextLens, c \in TextLens : ComposeGeneral(q, c)
  \/ \E q \in TextLens, c \in TextLens, f \in TextLens : ComposeExpert(q, c, f)
  \/ \E q \in TextLens, p \in PayloadLists : ComposeIntegration(q, p)
  \/ \E q \in TextLens, c \in TextLens, r \in TextLens : ComposeSummarize(q, c, r)

SpecPrompt == InitPrompt /\ [][NextPrompt]_vars

(***************************************************************************)
(* Properties of prompt composition (SpecPrompt).                           *)
(***************************************************************************)
\* C12: every fragment in the messages of a reasoning call (question,
\* context, telemetry dump, specialist payloads, the integration result given
\* to the summarizer) went through the token budgeter before the prompt was
\* composed: what is sent is the budgeter's result for the fragment's text.
C12_EveryFragmentBudgeted ==
  \A k \in 1..Len(prompt.fragments) :
    SentLen(prompt.fragments[k])
      = truncate_text_len(RawLen(prompt.fragments[k]), MAX_INPUT_TOKENS)

\* C13: when a reasoning call composes k > 1 fragments, each is truncated to
\* max(1, MAX_INPUT_TOKENS / k) tokens, and the lengths of the fragments add
\* up to at most MAX_INPUT_TOKENS * AVG_CHARS_PER_TOKEN characters.
C13_FragmentsShareTheBudget ==
  LET k == Len(prompt.fragments) IN
  k > 1 =>
    /\ \A i \in 1..k :
         SentLen(prompt.fragments[i])
           = truncate_text_len(RawLen(prompt.fragments[i]),
                               Max(1, MAX_INPUT_TOKENS \div k))
    /\ SeqSum([i \in 1..k |-> SentLen(prompt.fragments[i])]) <= InputChars

(***************************************************************************)
(* Properties of the specialists' inputs and of failures (SpecRun).         *)
(***************************************************************************)
\* C21: the telemetry dump placed in a specialist's prompt holds only message
\* types that EXPERT_SIGNAL_MAPPING assigns to that specialist.
C21_ExpertSeesOnlyItsSignals ==
  \A expert \in DOMAIN run.received :
    \A key \in DOMAIN run.received[expert].flight_data :
      LET data == run.received[expert].flight_data[key] IN
      "signals" \in DOMAIN data =>
        DOMAIN data.signals \subseteq EXPERT_SIGNAL_MAPPING[expert]

\* the planner named at least one specialist, and only known ones
KnownExpertsRequested ==
  /\ Len(RequestedExperts) >= 1
  /\ \A i \in 1..Len(RequestedExperts) : ExpertCallable(RequestedExperts[i])

\* C22: when a requested time window cannot be extracted (here: its value is
\* not a number) the failure is carried as an error value in the data given to
\* each specialist, the other windows are still extracted, every requested
\* specialist is called and the run reaches the summarizer.
C22_ExtractionFailureIsCarried ==
  (KnownExpertsRequested
     /\ \E i \in 1..Len(RequestedWindows) : ~FloatOk(RequestedWindows[i])) =>
    /\ \A expert \in DOMAIN run.received :
         LET given == run.received[expert].flight_data IN
         /\ \A i \in 1..Len(RequestedWindows) :
              FloatOk(RequestedWindows[i]) =>
                WindowKey(RequestedWindows[i]) \in DOMAIN given
         /\ \E key \in DOMAIN given : "error" \in DOMAIN given[key]
    /\ RunOver =>
         /\ run.pc # "failed"
         /\ run.calls = <<"planner">> \o ExpertCalls(RequestedExperts)
                          \o <<"integration", "summarizeForUser">>

\* the known identities that the integration result names as additional_experts
AdditionalExperts ==
  IF /\ run.integration.kind = "dict"
     /\ "additional_experts" \in DOMAIN run.integration.fields
     /\ run.integration.fields.additional_experts.kind = "list"
  THEN LET items == run.integration.fields.additional_experts.items IN
       {items[i].v : i \in {k \in 1..Len(items) : ExpertCallable(items[k])}}
  ELSE {}

\* the reasoning calls of the run made for an agent name
CallsOf(agent_name) == {i \in 1..Len(run.calls) : run.calls[i] = agent_name}

\* C23: when an integration round's result names, as additional_experts,
\* known identities not yet consulted in the run, those specialists are
\* dispatched and another integration round follows; an identity already
\* consulted is not dispatched again.
C23_IntegrationPullsInExperts ==
  (RunOver /\ run.pc # "failed" /\ KnownExpertsRequested) =>
    /\ \A expert \in AdditionalExperts : CallsOf("expert:" \o expert) # {}
    /\ \A expert \in Identities, round \in CallsOf("integration") :
         (\E i \in CallsOf("expert:" \o expert) : i < round)
           => ~(\E j \in CallsOf("expert:" \o expert) : j > round)

\* the integration stage is entered: every requested specialist has answered
IntegrationEntered == run.pc = "dispatch" /\ run.todo = <<>>

\* the integration stage has returned its parsed result to debug_chatbot
IntegrationReturned ==
  /\ run.pc = "summarize"
  /\ run.integration.kind \in {"dict", "list"}

PlanParsed == run.pc \notin {"idle", "planner", "parse"} /\ run.calls # <<>>

\* C25: _safe_parse_json never raises: for every text of a reasoning call it
\* returns a JSON object or array; a text that json.loads rejects gives
\* {raw: text} and a JSON value that is neither object nor array gives
\* {raw: value}.
C25_SafeParseNeverRaises ==
  PlanParsed =>
    /\ run.plan.kind \in {"dict", "list"}
    /\ run.raw.json.kind = "invalid" =>
         run.plan = JDict([raw |-> JStr(run.raw.text)])
    /\ run.raw.json.kind \in {"num", "str", "null"} =>
         run.plan = JDict([raw |-> run.raw.json])

\* C26: no planner output is fatal: whatever text the planner's reasoning call
\* returns (an object with or without the expected keys, an array, a scalar,
\* null-valued keys, prose), debug_chatbot does not raise: it goes on to the
\* general answer or to the summarizer and returns an answer.  (The deeply
\* nested text, on which the parse itself raises, is the matter of C25.)
C26_NoPlannerOutputIsFatal ==
  (run.calls # <<>> /\ run.raw.json.kind # "deep") =>
    /\ run.pc # "failed"
    /\ run.pc \in {"answered", "done"} =>
         /\ run.calls[Len(run.calls)] \in {"general", "summarizeForUser"}
         /\ run.final \in Answers

\* C28: a chat request for a log id that has no stored context collection is
\* answered with a 404, and only other exceptions are answered with a 500.
C28_UnknownLogIs404 ==
  run.pc = "failed" =>
    IF files[run.log_id].state = "absent" /\ run.calls = <<>>
    THEN run.status = 404
    ELSE run.status = 500

\* the collection of the run's log when the expert loop began: the planner's
\* append is the last one made
FileAtDispatch ==
  Replay(UploadedFiles[run.log_id], run.log_id,
         SubSeq(hist[run.log_id], 1, run.base + 1))

\* the answer of the last reasoning call made for a specialist
LastAnswer(expert) ==
  LET h == hist[run.log_id]
      last == CHOOSE i \in 1..Len(h) :
                /\ h[i].actor = "expert:" \o expert
                /\ \A j \in (i + 1)..Len(h) : h[j].actor # "expert:" \o expert
  IN h[last].answer

\* C29: the specialists of one planning round are independent: the telemetry
\* and the reference context a specialist's reasoning call receives depend on
\* the plan and on the collection as it was before the first dispatch, not on
\* the specialists dispatched before it, and the identity-to-payload map
\* handed to the integrator holds for each specialist the parsed answer of its
\* own call; so they are the same for every dispatch order.  Stated while the
\* specialists are dispatched and when the map is handed to the integrator.
C29_SpecialistsIndependent ==
  run.pc \in {"dispatch", "summarize"} =>
    /\ DOMAIN run.received = run.outputs
    /\ DOMAIN run.payloads = run.outputs
    /\ \A expert \in run.outputs :
         /\ run.received[expert].flight_data =
              FlightDataToDump(expert,
                FlightData(run.log_id, logs[run.log_id], IterItems(run.time_windows)))
         /\ run.received[expert].rag_docs = get_rag_docs(FileAtDispatch, expert)
         /\ \E j \in ExpertJsons :
              /\ Response(j).text = LastAnswer(expert)
              /\ run.payloads[expert] = safe_parse_json(Response(j))

\* two specialists have answered, attitude before gps, the second with the
\* first one's append in the collection, and the map is handed to the
\* integrator
C29_Witness ==
  /\ run.calls = <<"planner", "expert:attitude", "expert:gps", "integration">>
  /\ run.outputs = {"attitude", "gps"}
  /\ DOMAIN run.flight_data # {}
  /\ files[run.log_id] # FileAtDispatch
  /\ run.payloads["attitude"] # run.payloads["gps"]

(***************************************************************************)
(* One chat request on a disk whose writes can fail (SpecFault).            *)
(***************************************************************************)
\* planner answers for the no-specialist path and for the specialist path,
\* without and with a time window
PathPlannerJsons ==
  { JDict(<<>>), JDict([requested_experts |-> JList(<<JStr("gps")>>)]),
    JDict([requested_experts |-> JList(<<JStr("gps")>>),
           requested_time_windows |-> JList(<<JNum(5000)>>)]) }

InitFault ==
  /\ files = UploadedFiles
  /\ clock = 0
  /\ hist = [id \in AllIds |-> <<>>]
  /\ lastRead = NoRead
  /\ procs = <<>>
  /\ run = RunIdle
  /\ tr = TrOff
  /\ logs = UploadedLogs(LogShort)
  /\ fd = FdIdle
  /\ prompt = NoPrompt
  /\ disk = "faulty"

NextFault ==
  \/ \E id \in Ingested, q \in Questions : AskChat(id, q)
  \/ \E j \in PathPlannerJsons : Planner(Response(j))
  \/ ParsePlan
  \/ Windows
  \/ \E j \in ExpertJsons : CallExpert(Response(j))
  \/ \E j \in IntegrationJsons : CallIntegration(Response(j))
  \/ \E a \in Answers : CallSummarize(a)
  \/ \E a \in Answers : CallGeneral(a)
  \/ Reply
  \/ RagDocsRaise

SpecFault == InitFault /\ [][NextFault]_vars

\* C27: a memory append that cannot be persisted never fails the user-facing
\* answer: when the read or the write of the collection fails during a
\* step-level or request-level append, the failure is swallowed, the stored
\* collection is left as it was, and the run still returns its answer.
C27_FailedAppendIsHarmless ==
  run.calls # <<>> =>
    /\ files[run.log_id].state = "ok"
    /\ run.pc # "failed"

(***************************************************************************)
(* One chat request when two logs have been uploaded (SpecTwoLogs).         *)
(***************************************************************************)
SecondLog == "L2"
TwoLogs == Ingested \cup {SecondLog}

\* both logs uploaded, both with or both without an earlier request
InitTwoLogs ==
  /\ \E earlier \in {<<>>, EarlierCalls} :
       /\ hist = [id \in AllIds \cup TwoLogs |->
                    IF id \in TwoLogs THEN earlier ELSE <<>>]
       /\ files = [id \in AllIds \cup TwoLogs |->
                     IF id \in TwoLogs
                     THEN Replay(Stored(generate_rag_documents), id, earlier)
                     ELSE Absent]
  /\ clock = 0
  /\ lastRead = NoRead
  /\ procs = <<>>
  /\ run = RunIdle
  /\ tr = TrOff
  /\ logs = [id \in AllIds \cup TwoLogs |->
               IF id \in TwoLogs THEN StoredLog(LogShort) ELSE NoLog]
  /\ fd = FdIdle
  /\ prompt = NoPrompt
  /\ disk = "ok"

NextTwoLogs ==
  \/ \E id \in TwoLogs, q \in Questions : AskChat(id, q)
  \/ \E j \in PathPlannerJsons : Planner(Response(j))
  \/ ParsePlan
  \/ Windows
  \/ \E j \in ExpertJsons : CallExpert(Response(j))
  \/ \E j \in IntegrationJsons : CallIntegration(Response(j))
  \/ \E a \in Answers : CallSummarize(a)
  \/ \E a \in Answers : CallGeneral(a)
  \/ Reply
  \/ /\ run.pc = "done"
     /\ ~fd.called
     /\ GetFlightData(run.log_id, 5000, SignalsNone, 1)

SpecTwoLogs == InitTwoLogs /\ [][NextTwoLogs]_vars

\* C30: no state is shared across log ids: a memory append or a step of an
\* orchestration run for one log leaves the document collection and the Log
\* Record of every other log unchanged.
C30_NoSharedStateAcrossLogs ==
  [][\A id \in DOMAIN files :
       id # run'.log_id => (files'[id] = files[id] /\ logs'[id] = logs[id])]_vars

\* a complete run for one log, with telemetry extracted and appends made,
\* beside another log whose collection holds an earlier conversation
C30_Witness ==
  /\ run.pc = "done"
  /\ DOMAIN run.flight_data # {}
  /\ Len(hist[run.log_id]) >= run.base + 5
  /\ \E other \in TwoLogs \ {run.log_id} :
       /\ files[other] = Replay(Stored(generate_rag_documents), other, EarlierCalls)
       /\ files[other] # files[run.log_id]
       /\ logs[other] = StoredLog(LogShort)

(***************************************************************************)
(* get_rag_docs on stored collections of any content (SpecDocs).            *)
(***************************************************************************)
MaxDocs == 2          \* documents of a stored collection in SpecDocs

\* a document without the key document_type
UntypedDoc == [title |-> "Notes", content |-> <<"x">>]

DocPool ==
  { StaticDoc("attitude_control", "Attitude Control"),
    StaticDoc("gps_navigation", "GPS Navigation"),
    StaticDoc("GPS_Navigation", "GPS Navigation"),
    StaticDoc("reference", "ArduPilot Message Reference"),
    UntypedDoc }

Collections == UNION { [1..n -> DocPool] : n \in 0..MaxDocs }

TypeFilters == { "", "gps", "GPS", "attitude" }

\* a reader calls get_rag_docs for a log
GetRagDocs(log_id, document_type) ==
  /\ lastRead.kind = "none"
  /\ files[log_id].state = "ok"
  /\ lastRead' =
       [kind |-> "get_rag_docs", log_id |-> log_id,
        document_type |-> document_type,
        raised |-> RagDocsKeyError(files[log_id], document_type),
        docs |-> IF RagDocsKeyError(files[log_id], document_type) THEN <<>>
                 ELSE get_rag_docs(files[log_id], document_type)]
  /\ UNCHANGED <<disk, logs, fd, prompt, files, clock, hist, procs, run, tr>>

InitDocs ==
  /\ \E docs \in Collections :
       files = [id \in AllIds |-> IF id \in Ingested THEN Stored(docs) ELSE Absent]
  /\ clock = 0
  /\ hist = [id \in AllIds |-> <<>>]
  /\ lastRead = NoRead
  /\ procs = <<>>
  /\ run = RunIdle
  /\ tr = TrOff
  /\ logs = UploadedLogs(LogShort)
  /\ fd = FdIdle
  /\ prompt = NoPrompt
  /\ disk = "ok"

NextDocs == \E id \in Ingested, t \in TypeFilters : GetRagDocs(id, t)

SpecDocs == InitDocs /\ [][NextDocs]_vars

\* the documents of a collection that a type filter asks for, in stored order
Matching(docs, document_type) ==
  SelectSeq(docs,
            LAMBDA doc : /\ "document_type" \in DOMAIN doc
                         /\ \/ ReSearch(document_type, doc.document_type)
                            \/ doc.document_type = "reference")

\* C31: get_rag_docs returns a result for every stored collection, also one
\* that holds a document without document_type: with a type filter exactly the
\* documents whose document_type matches it, case-insensitively, and those
\* typed "reference", in stored order; without a filter all documents.
C31_RagDocsFilter ==
  lastRead.kind = "get_rag_docs" =>
    /\ ~lastRead.raised
    /\ lastRead.docs =
         IF lastRead.document_type = "" THEN files[lastRead.log_id].documents
         ELSE Matching(files[lastRead.log_id].documents, lastRead.document_type)

(***************************************************************************)
(* Properties of the integration prompt (SpecPrompt).                       *)
(***************************************************************************)
\* the expert summary: the second fragment of the integration prompt
ExpertSummary == prompt.fragments[2]

\* C32: in call_integration the per-specialist budget is
\* max(1, MAX_INPUT_TOKENS // max(1, number of payloads)); the text of each
\* payload is cut to that budget and the joined summary is cut again to
\* MAX_INPUT_TOKENS, so the summary sent has at most
\* MAX_INPUT_TOKENS * AVG_CHARS_PER_TOKEN characters, for any number and size
\* of payloads, none included.
C32_IntegrationSummaryBudget ==
  prompt.call = "integration" =>
    LET n == Len(prompt.payloads)
        budget == Max(1, MAX_INPUT_TOKENS \div Max(1, n))
    IN /\ Len(prompt.sections) = n
       /\ \A k \in 1..n :
            LET sent == prompt.sections[k] - NameLen(prompt.payloads[k].expert) - 2
            IN /\ sent = truncate_text_len(prompt.payloads[k].len, budget)
               /\ sent <= budget * AVG_CHARS_PER_TOKEN
       /\ RawLen(ExpertSummary) = JoinedLen(prompt.sections)
       /\ SentLen(ExpertSummary)
            = truncate_text_len(RawLen(ExpertSummary), MAX_INPUT_TOKENS)
       /\ SentLen(ExpertSummary) <= InputChars
       /\ n = 0 => SentLen(ExpertSummary) = 0

\* three payloads, each cut to its share, whose sections are together longer
\* than the input budget, so that the summary is cut again
C32_Witness ==
  /\ prompt.call = "integration"
  /\ Len(prompt.payloads) = 3
  /\ \A k \in 1..3 :
       prompt.sections[k] < prompt.payloads[k].len
  /\ RawLen(ExpertSummary) > InputChars
  /\ SentLen(ExpertSummary) = InputChars

(***************************************************************************)
(* Properties of the planner's context (SpecRun).                           *)
(***************************************************************************)
\* the chat_history documents among the documents of a context
HistoryDocs(docs) == SelectSeq(docs, LAMBDA doc : doc.document_type = "chat_history")

\* the planner has made its reasoning call
PlannerCalled == Len(run.calls) >= 1

\* the log had chat entries when the request came in
HadHistory == run.base > 0

\* C33: the context the planner sends to its reasoning call holds the log's
\* chat-history document once when the store has one, with any number of
\* entries, and never more than once.
C33_PlannerContextHistoryOnce ==
  PlannerCalled =>
    /\ Len(HistoryDocs(run.context)) <= 1
    /\ HadHistory => Len(HistoryDocs(run.context)) = 1

(***************************************************************************)
(* Properties of the dispatch (SpecRun).                                    *)
(***************************************************************************)
\* the planner's step-level append has been written for this request
PlannerAppendPersisted ==
  /\ run.calls # <<>>
  /\ files[run.log_id].state = "ok"
  /\ Len(hist[run.log_id]) > run.base

\* the plan is an object whose time windows can be walked, so that what is
\* left to go wrong after the planner is the value of requested_experts
ExpertsValueDecides ==
  /\ PlanParsed
  /\ run.plan.kind = "dict"
  /\ Iterable(run.time_windows)

\* C34: every expert debug_chatbot dispatches is one of attitude, gps, ekf,
\* parameters; a planner result with any other value in requested_experts (an
\* unknown name, a value that is not a list, a duplicate) causes no specialist
\* call outside that set and does not leave the run aborted once the planner's
\* memory append has been persisted.
C34_DispatchWithinIdentities ==
  /\ \A i \in 1..Len(run.calls) :
       run.calls[i] \in {"planner", "integration", "summarizeForUser", "general"}
                          \cup {"expert:" \o e : e \in Identities}
  /\ (ExpertsValueDecides /\ PlannerAppendPersisted) => run.pc # "failed"

(***************************************************************************)
(* Properties of the memory store, continued (SpecStore).                   *)
(***************************************************************************)
\* the entries a content holds, counted by their delimiters: the places where
\* the text "--- Agent Chat Entry" or "--- Chat Entry" stands
DelimitedEntries(content) ==
  Cardinality({i \in 1..Len(content) : content[i] \in {AgentDelim, ChatDelim}})

\* C35: after any sequence of step-level and request-level appends to one
\* log, message_count of the chat-history document equals the number of
\* delimited entries in its content, agent entries and user entries together.
C35_CountMatchesEntries ==
  \A id \in Ingested :
    HasChatDoc(id) =>
      ChatDoc(id).metadata.message_count = DelimitedEntries(ChatDoc(id).content)

\* old is a strict prefix of new
StrictPrefix(old, new) ==
  Len(old) < Len(new) /\ SubSeq(new, 1, Len(old)) = old

\* an append to the log was made in this step
AppendMade(id) == Len(hist'[id]) = Len(hist[id]) + 1

\* C36: the memory store is append-only: every successful append leaves the
\* previous chat-history content as a strict prefix of the new content, never
\* decreases message_count, and leaves every other document of the
\* collection unchanged.
C36_AppendOnly ==
  [][\A id \in Ingested :
       AppendMade(id) =>
         LET old == files[id].documents
             new == files'[id].documents
             at == ChatDocIndex(new)
         IN /\ files'[id].state = "ok"
            /\ at # 0
            /\ IF ChatDocIndex(old) = 0
               THEN /\ new = Append(old, new[at])
                    /\ new[at].metadata.message_count = 1
               ELSE /\ at = ChatDocIndex(old)
                    /\ Len(new) = Len(old)
                    /\ \A i \in 1..Len(old) : i # at => new[i] = old[i]
                    /\ StrictPrefix(old[at].content, new[at].content)
                    /\ new[at].metadata.message_count
                         >= old[at].metadata.message_count]_vars

\* three appends of both kinds were made to a log: its content holds the three
\* entries one after the other and the six uploaded documents are as uploaded
C36_Witness ==
  \E id \in Ingested :
    /\ Len(hist[id]) = 3
    /\ \E k \in 1..3 : hist[id][k].kind = "agent"
    /\ \E k \in 1..3 : hist[id][k].kind = "user"
    /\ ChatDoc(id).content
         = ChatHeader(id) \o EntryOf(hist[id][1]) \o EntryOf(hist[id][2])
             \o EntryOf(hist[id][3])
    /\ SubSeq(files[id].documents, 1, 6) = generate_rag_documents

\* the request-level appends made to a log, one per completed chat request
CompletedRequests(id) == SelectSeq(hist[id], LAMBDA c : c.kind = "user")

\* C37: after m completed chat requests on one log the chat-history endpoint
\* returns exactly m messages in request order, each with the question and
\* the answer of its request, for any question and answer text (text of
\* several lines or with the entry delimiter in it included) and whatever
\* step-level agent entries were appended in between.
C37_HistoryReturnsEveryRequest ==
  \A id \in Ingested :
    LET m == get_chat_history(files[id], id)
        requests == CompletedRequests(id)
    IN /\ Len(m) = Len(requests)
       /\ \A k \in 1..Len(m) :
            /\ m[k].question = requests[k].question
            /\ m[k].answer = requests[k].answer

====
